---- MODULE Spec2Model ----
(***************************************************************************)
(* Rolling team-state backfill (odds_value.jobs.team_game_state) and the   *)
(* training-row query (odds_value.analytics.training_data).                *)
(*                                                                         *)
(* Numbers: every mean the code computes as a Python float or an SQL Float *)
(* is modelled as an exact rational <<num, den>> in lowest terms with      *)
(* den > 0; SQL NULL in a Float column is NULLF, in an Integer column NULL.*)
(***************************************************************************)
EXTENDS Integers, Sequences, FiniteSets, TLC

\* ------------------------------------------------------------------ bounds
\* Longest head-to-head history (InitRivalry).
MaxGames == 7
\* Largest mixed slate of games (InitSlate).
MaxSlate == 2
\* Largest batch of games around one kickoff time (InitKickoff).
MaxTied == 3
\* Longest fixture list with games still to be played (InitPending).
MaxPending == 5
\* Longest one-season history with box scores (InitBoxRun).
MaxBox == 7
\* Largest slate with box scores over two seasons (InitBoxSlate).
MaxBoxSlate == 2
\* Most assembled rows handed to one baseline run (SpecBaseline).
MaxRows == 3
\* Most calls of upsert_odds_snapshot on one session (SpecOdds).
MaxCalls == 3
\* Most outcomes in one market of a mapped event (InitOutcomes).
MaxOutcomes == 2
\* Largest games_played a shrink weight is computed for (SpecShrink).
MaxGP == 8
\* Largest magnitude of a raw value to shrink (SpecShrink).
MaxRaw == 5

\* ------------------------------------------------------- program constants
\* deque(maxlen=3) / deque(maxlen=5)
L3 == 3
L5 == 5
\* commit_every_games default
DefaultCommitEvery == 250

\* ------------------------------------------------------------- NULL values
NULL == -1
NULLF == <<0, 0>>

\* ---------------------------------------------------------------- rationals
Abs(x) == IF x < 0 THEN -x ELSE x

RECURSIVE GCD(_, _)
GCD(a, b) == IF b = 0 THEN a ELSE GCD(b, a % b)

\* n / d as a float, d > 0
Frac(n, d) ==
    LET g == GCD(Abs(n), d) IN <<n \div g, d \div g>>

ZeroF == <<0, 1>>
FloatOf(n) == <<n, 1>>

FracSub(a, b) ==
    IF a = NULLF \/ b = NULLF THEN NULLF
    ELSE Frac(a[1] * b[2] - b[1] * a[2], a[2] * b[2])

\* x / NULLIF(den, 0): NULL when the denominator is 0
DivNullIf(n, d) == IF d = 0 THEN NULLF ELSE Frac(n, d)

FracMul(a, b) == Frac(a[1] * b[1], a[2] * b[2])
FracAbs(a) == <<Abs(a[1]), a[2]>>
FracLess(a, b) == a[1] * b[2] < b[1] * a[2]

\* ----------------------------------------------------------------- shrink
\* Faulty variant: the weight of the prior, k / (gp + k), used for the weight
ShrinkWeightOfPrior(games_played, k) == Frac(k, games_played + k)

\* w = games_played / (games_played + k)
ShrinkWeight(games_played, k) == Frac(games_played, games_played + k)

\* shrink(value, games_played, k): w * value
Shrink(value, games_played, k) == FracMul(ShrinkWeight(games_played, k), value)

\* shrink_sql(value, games_played, k): COALESCE(games_played, 0) and
\* COALESCE(value, 0.0) before the same product
ShrinkSql(value, games_played, k) ==
    LET gp == IF games_played = NULL THEN 0 ELSE games_played
        v == IF value = NULLF THEN ZeroF ELSE value
    IN FracMul(ShrinkWeight(gp, k), v)

\* ------------------------------------------------------------ games table
\* Game row (src/odds_value/db/models/game.py); week, venue and status are
\* carried by the code unchanged and take no part in any computation.
Game(id, t, season, fx) ==
    [id |-> id, league_id |-> 1, season_id |-> season, start_time |-> t,
     home_team_id |-> fx.home, away_team_id |-> fx.away,
     home_score |-> fx.hs, away_score |-> fx.as]

Fixture(h, a, hs, as) == [home |-> h, away |-> a, hs |-> hs, as |-> as]

Teams == {1, 2, 3}
Seasons == {1, 2}

\* Team 1's three results of the worked scenario: 20-10 at home, 14-17 away,
\* 24-3 at home.
Results == <<Fixture(1, 2, 20, 10), Fixture(2, 1, 17, 14), Fixture(1, 2, 24, 3)>>

\* A mixed slate: other pairings, and a game not yet final (a NULL score).
SlateFixtures ==
    {Fixture(1, 2, 20, 10), Fixture(2, 1, 17, 14), Fixture(3, 1, 24, 3),
     Fixture(2, 3, 20, NULL)}

\* ----------------------------------------------------- ordering of the query
\* Faulty variant: ORDER BY Game.start_time alone
GameBeforeTimeOnly(a, b) == a.start_time < b.start_time

\* ORDER BY Game.start_time ASC, Game.id ASC
GameBefore(a, b) ==
    \/ a.start_time < b.start_time
    \/ a.start_time = b.start_time /\ a.id < b.id

RECURSIVE InsertSorted(_, _)
InsertSorted(g, s) ==
    IF s = <<>> THEN <<g>>
    ELSE IF GameBefore(g, Head(s)) THEN <<g>> \o s
    ELSE <<Head(s)>> \o InsertSorted(g, Tail(s))

RECURSIVE SortGames(_)
SortGames(s) ==
    IF s = <<>> THEN <<>>
    ELSE InsertSorted(s[Len(s)], SortGames(SubSeq(s, 1, Len(s) - 1)))

\* .where(Game.league_id == league_id) / .where(Game.season_id == season_id),
\* each applied only when the argument is not None
InScope(g, league_id, season_id) ==
    /\ league_id = NULL \/ g.league_id = league_id
    /\ season_id = NULL \/ g.season_id = season_id

RECURSIVE FilterScope(_, _, _)
FilterScope(s, league_id, season_id) ==
    IF s = <<>> THEN <<>>
    ELSE (IF InScope(Head(s), league_id, season_id) THEN <<Head(s)>> ELSE <<>>)
         \o FilterScope(Tail(s), league_id, season_id)

\* games = list(session.scalars(stmt).all())
SelectGames(table, league_id, season_id) ==
    SortGames(FilterScope(table, league_id, season_id))

\* Faulty variant: the scope is not deleted before it is rebuilt
DeleteNothing(rows, table, league_id, season_id) == rows

\* delete(TeamGameState).where(TeamGameState.game_id.in_(game_ids_subq))
DeleteScope(rows, table, league_id, season_id) ==
    {r \in rows :
        ~\E i \in DOMAIN table :
            table[i].id = r.game_id /\ InScope(table[i], league_id, season_id)}

\* ------------------------------------------------------- window arithmetic
TeamResult(pf, pa) == [points_for |-> pf, points_against |-> pa]

RECURSIVE SumFor(_)
SumFor(w) == IF w = <<>> THEN 0 ELSE Head(w).points_for + SumFor(Tail(w))

RECURSIVE SumAgainst(_)
SumAgainst(w) == IF w = <<>> THEN 0 ELSE Head(w).points_against + SumAgainst(Tail(w))

\* Faulty variant: no result yet gives NULL, as _compute_state does
AvgPointsForNull(results) ==
    IF results = <<>> THEN NULLF ELSE Frac(SumFor(results), Len(results))

AvgPointsFor(results) ==
    IF results = <<>> THEN ZeroF ELSE Frac(SumFor(results), Len(results))

AvgPointsAgainst(results) ==
    IF results = <<>> THEN ZeroF ELSE Frac(SumAgainst(results), Len(results))

\* Faulty variant: a full deque refuses the new entry instead of dropping the oldest
DequeAppendKeepOldest(d, r, maxlen) ==
    IF Len(d) >= maxlen THEN d ELSE Append(d, r)

\* deque(maxlen=n).append(r): a full deque drops its oldest (leftmost) entry
DequeAppend(d, r, maxlen) ==
    IF Len(d) >= maxlen THEN Append(Tail(d), r) ELSE Append(d, r)

\* ------------------------------------------------------------ loop state
\* The five defaultdicts of one run, all empty.
EmptyDicts ==
    [last3 |-> [t \in Teams |-> <<>>],
     last5 |-> [t \in Teams |-> <<>>],
     season_tot_pf |-> [k \in Teams \X Seasons |-> 0],
     season_tot_pa |-> [k \in Teams \X Seasons |-> 0],
     season_cnt |-> [k \in Teams \X Seasons |-> 0]]

\* Faulty variant: `and` for `or`: a game with one score is processed
SkippedBothNull(g) == g.home_score = NULL /\ g.away_score = NULL

\* if g.home_score is None or g.away_score is None: continue
Skipped(g) == g.home_score = NULL \/ g.away_score = NULL

\* The twelve box-score rollup columns of team_game_state.
RollupColumns ==
    {"off_yards_l3", "off_yards_l5", "off_yards_season",
     "off_turnovers_l3", "off_turnovers_l5", "off_turnovers_season",
     "def_yards_allowed_l3", "def_yards_allowed_l5", "def_yards_allowed_season",
     "def_takeaways_l3", "def_takeaways_l5", "def_takeaways_season"}
NullRollups == [c \in RollupColumns |-> NULLF]

\* Faulty variant: the season counters are read by team alone, all seasons
\* together
StateRowAllSeasons(team, g, d) ==
    LET key == <<team, g.season_id>>
        All(f) == f[<<team, 1>>] + f[<<team, 2>>]
    IN
    [team_id |-> team, game_id |-> g.id, season_id |-> g.season_id,
     start_time |-> g.start_time,
     games_played |-> All(d.season_cnt),
     off_pts_l3 |-> AvgPointsFor(d.last3[team]),
     def_pa_l3 |-> AvgPointsAgainst(d.last3[team]),
     off_pts_l5 |-> AvgPointsFor(d.last5[team]),
     def_pa_l5 |-> AvgPointsAgainst(d.last5[team]),
     off_pts_season |-> FloatOf(All(d.season_tot_pf)),
     def_pa_season |-> FloatOf(All(d.season_tot_pa)),
     avg_points_for |-> NULLF, avg_points_against |-> NULLF,
     avg_point_diff |-> NULLF] @@ NullRollups

\* Faulty variant: a team's windows are read as empty at its first game of
\* a season
StateRowSeasonWindows(team, g, d) ==
    LET key == <<team, g.season_id>>
        w3 == IF d.season_cnt[key] = 0 THEN <<>> ELSE d.last3[team]
        w5 == IF d.season_cnt[key] = 0 THEN <<>> ELSE d.last5[team]
    IN
    [team_id |-> team, game_id |-> g.id, season_id |-> g.season_id,
     start_time |-> g.start_time,
     games_played |-> d.season_cnt[key],
     off_pts_l3 |-> AvgPointsFor(w3),
     def_pa_l3 |-> AvgPointsAgainst(w3),
     off_pts_l5 |-> AvgPointsFor(w5),
     def_pa_l5 |-> AvgPointsAgainst(w5),
     off_pts_season |-> FloatOf(d.season_tot_pf[key]),
     def_pa_season |-> FloatOf(d.season_tot_pa[key]),
     avg_points_for |-> NULLF, avg_points_against |-> NULLF,
     avg_point_diff |-> NULLF] @@ NullRollups

\* TeamGameState(...) as constructed in the loop; the avg_* columns and the
\* box-score rollup columns are not passed and are NULL until the closing
\* updates.
StateRow(team, g, d) ==
    LET key == <<team, g.season_id>> IN
    [team_id |-> team, game_id |-> g.id, season_id |-> g.season_id,
     start_time |-> g.start_time,
     games_played |-> d.season_cnt[key],
     off_pts_l3 |-> AvgPointsFor(d.last3[team]),
     def_pa_l3 |-> AvgPointsAgainst(d.last3[team]),
     off_pts_l5 |-> AvgPointsFor(d.last5[team]),
     def_pa_l5 |-> AvgPointsAgainst(d.last5[team]),
     off_pts_season |-> FloatOf(d.season_tot_pf[key]),
     def_pa_season |-> FloatOf(d.season_tot_pa[key]),
     avg_points_for |-> NULLF, avg_points_against |-> NULLF,
     avg_point_diff |-> NULLF] @@ NullRollups

\* One side's result appended to its windows and added to its season sums.
FoldSide(d, team, season, pf, pa) ==
    LET key == <<team, season>> IN
    [last3 |-> [d.last3 EXCEPT ![team] = DequeAppend(@, TeamResult(pf, pa), L3)],
     last5 |-> [d.last5 EXCEPT ![team] = DequeAppend(@, TeamResult(pf, pa), L5)],
     season_tot_pf |-> [d.season_tot_pf EXCEPT ![key] = @ + pf],
     season_tot_pa |-> [d.season_tot_pa EXCEPT ![key] = @ + pa],
     season_cnt |-> [d.season_cnt EXCEPT ![key] = @ + 1]]

\* Faulty variant: the away side is folded with the home side's points
FoldGameHomePoints(d, g) ==
    FoldSide(FoldSide(d, g.home_team_id, g.season_id, g.home_score, g.away_score),
             g.away_team_id, g.season_id, g.home_score, g.away_score)

\* last3/last5 appends and season accumulators for both sides of game g
FoldGame(d, g) ==
    FoldSide(FoldSide(d, g.home_team_id, g.season_id, g.home_score, g.away_score),
             g.away_team_id, g.season_id, g.away_score, g.home_score)

\* Faulty variant: the result is folded in before the two rows are built
LoopBodyFoldFirst(d, g) ==
    [rows |-> <<StateRow(g.home_team_id, g, FoldGame(d, g)),
                StateRow(g.away_team_id, g, FoldGame(d, g))>>,
     dicts |-> FoldGame(d, g)]

\* The body of the loop for a game with both scores: the two rows appended
\* to the buffer, then the dictionaries after the result is folded in.
LoopBody(d, g) ==
    [rows |-> <<StateRow(g.home_team_id, g, d), StateRow(g.away_team_id, g, d)>>,
     dicts |-> FoldGame(d, g)]

\* ------------------------------------------------------------ persistence
\* UniqueConstraint("team_id", "game_id"): the rows of one commit are
\* accepted only if no two rows of the table share (team_id, game_id).
UniqueOk(rows, buf) ==
    /\ \A i \in DOMAIN buf : \A r \in rows :
          ~(r.team_id = buf[i].team_id /\ r.game_id = buf[i].game_id)
    /\ \A i, j \in DOMAIN buf :
          i # j => ~(buf[i].team_id = buf[j].team_id /\ buf[i].game_id = buf[j].game_id)

SeqToSet(s) == {s[i] : i \in DOMAIN s}

\* Faulty variant: only the rows of the newest game reach the table
FlushNewestGame(rows, buf) == rows \cup {buf[i] : i \in (Len(buf) - 1)..Len(buf)}

\* session.add_all(buffer); session.commit(): the table after a flush
FlushRows(rows, buf) == rows \cup SeqToSet(buf)

\* Faulty variant: every row is updated and a NULL ratio is coalesced to 0.0
AvgPointsRowCoalesce(r) ==
    IF r.games_played > 0
    THEN [r EXCEPT
            !.avg_points_for = Frac(r.off_pts_season[1], r.games_played),
            !.avg_points_against = Frac(r.def_pa_season[1], r.games_played),
            !.avg_point_diff =
                FracSub(Frac(r.off_pts_season[1], r.games_played),
                        Frac(r.def_pa_season[1], r.games_played))]
    ELSE [r EXCEPT !.avg_points_for = ZeroF, !.avg_points_against = ZeroF,
                   !.avg_point_diff = ZeroF]

\* UPDATE team_game_state SET avg_* = .. / NULLIF(games_played, 0)
\*   WHERE games_played > 0
AvgPointsRow(r) ==
    IF r.games_played > 0
    THEN [r EXCEPT
            !.avg_points_for = DivNullIf(r.off_pts_season[1], r.games_played),
            !.avg_points_against = DivNullIf(r.def_pa_season[1], r.games_played),
            !.avg_point_diff =
                FracSub(DivNullIf(r.off_pts_season[1], r.games_played),
                        DivNullIf(r.def_pa_season[1], r.games_played))]
    ELSE r

AvgPointsPass(rows) == {AvgPointsRow(r) : r \in rows}

\* --------------------------------------------------------- box-score rollups
\* One team's box score of one game: a team_game_stats row joined to its
\* football_team_game_stats row; yards_total and turnovers may be NULL.
BoxScore(game_id, team_id, yards_total, turnovers) ==
    [game_id |-> game_id, team_id |-> team_id, yards_total |-> yards_total,
     turnovers |-> turnovers]

\* The CTE base: one row per team-game that has a box score for the team and
\* for its opponent.
Base(table, stats) ==
    {[game_id |-> table[i].id, season_id |-> table[i].season_id,
      start_time |-> table[i].start_time, team_id |-> s.team_id,
      off_yards |-> s.yards_total, off_turnovers |-> s.turnovers,
      def_yards_allowed |-> o.yards_total, def_takeaways |-> o.turnovers] :
        <<i, s, o>> \in
            {t \in (DOMAIN table) \X stats \X stats :
                /\ table[t[1]].id = t[2].game_id
                /\ t[3].game_id = t[2].game_id
                /\ t[3].team_id # t[2].team_id}}

\* The rows before b in its window partition (team_id, season_id) ordered by
\* start_time; no two box scores of one team share a start_time in the
\* tables used, game_id settles the order if they do.
Preceding(base, b) ==
    {x \in base :
        /\ x.team_id = b.team_id
        /\ x.season_id = b.season_id
        /\ \/ x.start_time < b.start_time
           \/ x.start_time = b.start_time /\ x.game_id < b.game_id}

\* The n rows of the frame nearest to the current one.
RECURSIVE Frame(_, _)
Frame(rows, n) ==
    IF n = 0 \/ rows = {} THEN {}
    ELSE LET last == CHOOSE x \in rows :
                         \A y \in rows : y.start_time < x.start_time
                                          \/ (y.start_time = x.start_time
                                              /\ y.game_id <= x.game_id)
         IN {last} \cup Frame(rows \ {last}, n - 1)

RECURSIVE SumCol(_, _)
SumCol(rows, col) ==
    IF rows = {} THEN 0
    ELSE LET x == CHOOSE y \in rows : TRUE
         IN x[col] + SumCol(rows \ {x}, col)

\* Faulty variant: the frame ends at the current row
WSumToCurrent(base, b, col, n) ==
    LET before == Preceding(base, b) \cup {b}
        frame == IF n = NULL THEN before ELSE Frame(before, n)
        known == {x \in frame : x[col] # NULL}
    IN IF known = {} THEN ZeroF ELSE FloatOf(SumCol(known, col))

\* wsum(col, n): COALESCE(SUM(col) OVER (PARTITION BY team_id, season_id
\* ORDER BY start_time ROWS BETWEEN n PRECEDING AND 1 PRECEDING), 0.0), with
\* UNBOUNDED PRECEDING when n is None; SUM passes over NULLs and is NULL over
\* no value.
WSum(base, b, col, n) ==
    LET before == Preceding(base, b)
        frame == IF n = NULL THEN before ELSE Frame(before, n)
        known == {x \in frame : x[col] # NULL}
    IN IF known = {} THEN ZeroF ELSE FloatOf(SumCol(known, col))

\* One row of the CTE roll.
Roll(base, b) ==
    [off_yards_l3 |-> WSum(base, b, "off_yards", 3),
     off_yards_l5 |-> WSum(base, b, "off_yards", 5),
     off_yards_season |-> WSum(base, b, "off_yards", NULL),
     off_turnovers_l3 |-> WSum(base, b, "off_turnovers", 3),
     off_turnovers_l5 |-> WSum(base, b, "off_turnovers", 5),
     off_turnovers_season |-> WSum(base, b, "off_turnovers", NULL),
     def_yards_allowed_l3 |-> WSum(base, b, "def_yards_allowed", 3),
     def_yards_allowed_l5 |-> WSum(base, b, "def_yards_allowed", 5),
     def_yards_allowed_season |-> WSum(base, b, "def_yards_allowed", NULL),
     def_takeaways_l3 |-> WSum(base, b, "def_takeaways", 3),
     def_takeaways_l5 |-> WSum(base, b, "def_takeaways", 5),
     def_takeaways_season |-> WSum(base, b, "def_takeaways", NULL)]

\* UPDATE team_game_state SET <rollup columns> FROM roll
\*   WHERE team_game_state.game_id = roll.game_id AND .team_id = roll.team_id
RollupsPass(rows, table, stats) ==
    LET base == Base(table, stats)
        Matched(r) == {b \in base : b.game_id = r.game_id /\ b.team_id = r.team_id}
    IN {IF Matched(r) = {} THEN r
        ELSE Roll(base, CHOOSE b \in Matched(r) : TRUE) @@ r : r \in rows}

\* ------------------------------------------------------------ training rows
\* Faulty variant: start_time <= instead of <
LeagueAvgRowsInclusive(table, g) ==
    {i \in DOMAIN table :
        /\ table[i].season_id = g.season_id
        /\ table[i].start_time <= g.start_time
        /\ table[i].home_score # NULL
        /\ table[i].away_score # NULL}

\* The scalar subquery league_avg_pts_season_to_date of game g:
\* AVG(home_score + away_score) over the games of g's season that started
\* strictly before g and have both scores; AVG over no rows is NULL.
LeagueAvgRows(table, g) ==
    {i \in DOMAIN table :
        /\ table[i].season_id = g.season_id
        /\ table[i].start_time < g.start_time
        /\ table[i].home_score # NULL
        /\ table[i].away_score # NULL}

RECURSIVE SumTotals(_, _)
SumTotals(table, idxs) ==
    IF idxs = {} THEN 0
    ELSE LET i == CHOOSE j \in idxs : TRUE
         IN table[i].home_score + table[i].away_score + SumTotals(table, idxs \ {i})

LeagueAvg(table, g) ==
    LET idxs == LeagueAvgRows(table, g)
    IN IF idxs = {} THEN NULLF ELSE Frac(SumTotals(table, idxs), Cardinality(idxs))

\* Season.year of the two seasons on file.
SeasonYear(season_id) == 2016 + season_id

\* func.least(home.games_played, away.games_played)
Least(a, b) == IF a < b THEN a ELSE b

\* z(x): COALESCE(x, 0)
Z(x) == IF x = NULLF THEN ZeroF ELSE x

\* Faulty variant: LEAST(4.0, x), the lower bound is left out
Clamp4Upper(x) == IF FracLess(<<4, 1>>, x) THEN <<4, 1>> ELSE x

\* LEAST(4.0, GREATEST(-4.0, x))
Clamp4(x) ==
    IF FracLess(<<4, 1>>, x) THEN <<4, 1>>
    ELSE IF FracLess(x, <<-4, 1>>) THEN <<-4, 1>>
    ELSE x

\* Faulty variant: shrunk by the home team's games_played
MatchupEdgeHomeGames(h, a) ==
    ShrinkSql(FracSub(FracSub(h.off_pts_l3, a.def_pa_l5),
                      FracSub(a.off_pts_l3, h.def_pa_l5)),
              h.games_played, 3)

\* matchup_edge_l3_l5: the symmetric points edge, shrunk with k = 3.0
MatchupEdge(h, a) ==
    ShrinkSql(FracSub(FracSub(h.off_pts_l3, a.def_pa_l5),
                      FracSub(a.off_pts_l3, h.def_pa_l5)),
              Least(h.games_played, a.games_played), 3)

\* off_yards_edge_l3_l5: not coalesced, NULL when a rollup column is NULL
OffYardsEdge(h, a) ==
    FracSub(FracSub(h.off_yards_l3, a.def_yards_allowed_l5),
            FracSub(a.off_yards_l3, h.def_yards_allowed_l5))

\* turnover_edge_l3_l5: coalesced inputs, shrunk with k = 3.0, clamped
TurnoverEdge(h, a) ==
    Clamp4(ShrinkSql(FracSub(FracSub(Z(a.off_turnovers_l3), Z(h.def_takeaways_l5)),
                             FracSub(Z(h.off_turnovers_l3), Z(a.def_takeaways_l5))),
                     Least(h.games_played, a.games_played), 3))

\* home_avg_point_diff / away_avg_point_diff of the query
AvgPointDiff(r) ==
    FracSub(DivNullIf(r.off_pts_season[1], r.games_played),
            DivNullIf(r.def_pa_season[1], r.games_played))

\* Faulty variant: the difference of the sums over home.games_played, as in
\* the expression the code keeps in a string
SeasonStrengthHomeGames(h, a) ==
    LET d == FracSub(FracSub(h.off_pts_season, h.def_pa_season),
                     FracSub(a.off_pts_season, a.def_pa_season))
    IN IF h.games_played = 0 THEN NULLF
       ELSE FracMul(d, Frac(1, h.games_played))

\* season_strength: each side shrunk with k = 6.0 by its own games_played
SeasonStrength(h, a) ==
    FracSub(ShrinkSql(AvgPointDiff(h), h.games_played, 6),
            ShrinkSql(AvgPointDiff(a), a.games_played, 6))

\* Game JOIN home JOIN away WHERE both scores are not NULL
HasTrainingRow(g, rows) ==
    /\ g.home_score # NULL
    /\ g.away_score # NULL
    /\ \E h \in rows : h.team_id = g.home_team_id /\ h.game_id = g.id
    /\ \E a \in rows : a.team_id = g.away_team_id /\ a.game_id = g.id

TrainingRow(table, g, rows) ==
    LET h == CHOOSE r \in rows : r.team_id = g.home_team_id /\ r.game_id = g.id
        a == CHOOSE r \in rows : r.team_id = g.away_team_id /\ r.game_id = g.id
    IN [game_id |-> g.id, start_time |-> g.start_time, season_id |-> g.season_id,
        season_year |-> SeasonYear(g.season_id),
        matchup_edge_l3_l5 |-> MatchupEdge(h, a),
        season_strength |-> SeasonStrength(h, a),
        off_yards_edge_l3_l5 |-> OffYardsEdge(h, a),
        turnover_edge_l3_l5 |-> TurnoverEdge(h, a),
        home_team_id |-> g.home_team_id, away_team_id |-> g.away_team_id,
        home_games_played |-> h.games_played,
        away_games_played |-> a.games_played,
        point_diff |-> g.home_score - g.away_score,
        league_avg_pts_season_to_date |-> LeagueAvg(table, g)]

RECURSIVE MapTraining(_, _, _)
MapTraining(table, sorted, rows) ==
    IF sorted = <<>> THEN <<>>
    ELSE (IF HasTrainingRow(Head(sorted), rows)
          THEN <<TrainingRow(table, Head(sorted), rows)>> ELSE <<>>)
         \o MapTraining(table, Tail(sorted), rows)

\* Faulty variant: the ORDER BY is left out and rows come in storage order
BuildTrainingRowsUnordered(table, rows) == MapTraining(table, table, rows)

\* build_training_rows_stmt(), ORDER BY Game.start_time, Game.id
BuildTrainingRows(table, rows) == MapTraining(table, SortGames(table), rows)

\* LIMIT of fetch_training_rows when the caller passes none.
FetchLimit == 25

\* .limit(limit) on the ordered statement
Limit(s, limit) == SubSeq(s, 1, Least(Len(s), limit))

\* No fetch_training_rows call has been made.
NoFetch == [error |-> "none", limit |-> 0]

\* Faulty variant: the league average is passed on as the query returned it
FetchTrainingRowsUnconverted(table, rows, limit) ==
    [error |-> "none", rows |-> Limit(BuildTrainingRows(table, rows), limit)]

\* fetch_training_rows(session, limit=limit): the first `limit` rows of the
\* training query, each made a GameTrainingRow with
\* float(r["league_avg_pts_season_to_date"]); float(None) raises TypeError
\* and the call returns nothing.
FetchTrainingRows(table, rows, limit) ==
    LET rs == Limit(BuildTrainingRows(table, rows), limit)
    IN IF \E i \in DOMAIN rs : rs[i].league_avg_pts_season_to_date = NULLF
       THEN [error |-> "TypeError", rows |-> <<>>]
       ELSE [error |-> "none", rows |-> rs]

\* ------------------------------------------------------- baseline trainer
\* Python floats that are not finite.
INF == <<1, 0>>
NEGINF == <<-1, 0>>
NAN == <<2, 0>>

\* np.isfinite
IsFinite(x) == x[2] # 0

\* np.array(..., dtype=float) of one value: None becomes nan
ToFloat(v) == IF v = NULLF THEN NAN ELSE v

\* train_season_cutoff default of the baseline command
DefaultCutoff == 2018

\* Faulty variant: the cutoff season itself also goes to train
SplitTrainInclusive(rows, cutoff) ==
    SelectSeq(rows, LAMBDA r : r.season_year <= cutoff)

\* train = [r for r in rows if r.season_year < train_season_cutoff]
SplitTrain(rows, cutoff) ==
    SelectSeq(rows, LAMBDA r : r.season_year < cutoff)

\* test = [r for r in rows if r.season_year >= train_season_cutoff]
SplitTest(rows, cutoff) ==
    SelectSeq(rows, LAMBDA r : r.season_year >= cutoff)

\* One line of X: the five features of a row in column order.
FeatureRow(r) ==
    <<r.matchup_edge_l3_l5, r.off_yards_edge_l3_l5, r.turnover_edge_l3_l5,
      r.season_strength, r.league_avg_pts_season_to_date>>

\* The labels of the five values in the error message, in message order.
RowKeyLabels == <<"matchup", "off_yards", "to", "season_strength", "league_avg">>

MatrixOf(data) ==
    [i \in DOMAIN data |-> [j \in 1..5 |-> ToFloat(FeatureRow(data[i])[j])]]

\* np.argwhere(~np.isfinite(X)): the offending cells in row-major order,
\* of which bad[0] is taken
BadCells(X) == {c \in (DOMAIN X) \X (1..5) : ~IsFinite(X[c[1]][c[2]])}

FirstBad(X) ==
    CHOOSE c \in BadCells(X) :
        \A d \in BadCells(X) : c[1] < d[1] \/ (c[1] = d[1] /\ c[2] <= d[2])

NoError == [kind |-> "none", row |-> -1, col |-> -1, value |-> ZeroF, keys |-> <<>>]

\* ValueError("Non-finite value in X at row {i}, col {j}: {X[i, j]!r}. Row keys: ...")
\* with i and j counted from 0 and the row's five values as they were fetched
NonFiniteError(data, X) ==
    LET c == FirstBad(X) IN
    [kind |-> "non_finite", row |-> c[1] - 1, col |-> c[2] - 1,
     value |-> X[c[1]][c[2]],
     keys |-> [j \in 1..5 |-> <<RowKeyLabels[j], FeatureRow(data[c[1]])[j]>>]]

\* Faulty variant: the guard lets every matrix through
ExtractXYUnguarded(data) ==
    [ok |-> TRUE, X |-> MatrixOf(data),
     y |-> [i \in DOMAIN data |-> data[i].point_diff], error |-> NoError]

\* extract_xy(data): the matrix and the targets, or the error raised
ExtractXY(data) ==
    LET X == MatrixOf(data) IN
    IF BadCells(X) = {}
    THEN [ok |-> TRUE, X |-> X,
          y |-> [i \in DOMAIN data |-> data[i].point_diff], error |-> NoError]
    ELSE [ok |-> FALSE, X |-> <<>>, y |-> <<>>, error |-> NonFiniteError(data, X)]

NoFit == [X_train |-> <<>>, y_train |-> <<>>, X_test |-> <<>>, y_test |-> <<>>]

NoBaseline ==
    [status |-> "none", cutoff |-> 0, train |-> <<>>, test |-> <<>>,
     error |-> NoError, fit |-> NoFit]

\* run_baseline_point_diff on the fetched rows, up to model.fit: the split,
\* the two fail-fast checks, extract_xy of train, then of test.
RunBaseline(rows, cutoff) ==
    LET train == SplitTrain(rows, cutoff)
        test == SplitTest(rows, cutoff)
        base == [NoBaseline EXCEPT !.cutoff = cutoff, !.train = train, !.test = test]
    IN IF train = <<>>
       THEN [base EXCEPT !.status = "no_train",
                         !.error = [NoError EXCEPT !.kind = "no_train"]]
       ELSE IF test = <<>>
       THEN [base EXCEPT !.status = "no_test",
                         !.error = [NoError EXCEPT !.kind = "no_test"]]
       ELSE LET xt == ExtractXY(train) IN
            IF ~xt.ok
            THEN [base EXCEPT !.status = "non_finite_train", !.error = xt.error]
            ELSE LET xs == ExtractXY(test) IN
                 IF ~xs.ok
                 THEN [base EXCEPT !.status = "non_finite_test", !.error = xs.error]
                 ELSE [base EXCEPT !.status = "fitted",
                                   !.fit = [X_train |-> xt.X, y_train |-> xt.y,
                                            X_test |-> xs.X, y_test |-> xs.y]]

\* fetch_training_rows as the baseline imports it: one GameTrainingRow, with
\* season_year, per row of the training query.
RepoFetchTrainingRows(table, rows) == BuildTrainingRows(table, rows)

\* ------------------------------------------------------- odds snapshots
\* The session of the odds ingest: the rows of odds_snapshots it has flushed
\* to the database, the objects added and not yet flushed, and the calls of
\* upsert_odds_snapshot with what each returned.
NoOdds == [rows |-> <<>>, pending |-> <<>>, log |-> <<>>]

\* The keyword arguments of one call; they are the columns of the snapshot
\* the call inserts.
OddsCall(game_id, book_id, captured_at, market_type, side_type, line, price) ==
    [game_id |-> game_id, book_id |-> book_id, captured_at |-> captured_at,
     market_type |-> market_type, side_type |-> side_type, line |-> line,
     price |-> price, is_closing |-> FALSE, provider |-> "odds-api"]

\* Faulty variant: the line is compared with = whether or not it is None,
\* and in SQL NULL = NULL is not true
LineMatchesEquals(stored, line) ==
    stored # NULLF /\ line # NULLF /\ stored = line

\* OddsSnapshot.line.is_(None) for a None line, OddsSnapshot.line == line
\* otherwise
LineMatches(stored, line) ==
    IF line = NULLF THEN stored = NULLF
    ELSE stored # NULLF /\ stored = line

\* The WHERE clause of the lookup.
MatchesKey(row, c) ==
    /\ row.game_id = c.game_id
    /\ row.book_id = c.book_id
    /\ row.captured_at = c.captured_at
    /\ row.market_type = c.market_type
    /\ row.side_type = c.side_type
    /\ LineMatches(row.line, c.line)

\* The session flushes what was added before it runs a query (autoflush,
\* the default of sessionmaker), and when it commits.
Flush(o) == [o EXCEPT !.rows = o.rows \o o.pending, !.pending = <<>>]

\* upsert_odds_snapshot(session, **c)
UpsertOddsSnapshot(o, c) ==
    LET f == Flush(o)
        existing == \E i \in DOMAIN f.rows : MatchesKey(f.rows[i], c)
    IN IF existing
       THEN [f EXCEPT !.log = Append(@, [call |-> c, ret |-> FALSE])]
       ELSE [f EXCEPT !.pending = Append(@, c),
                      !.log = Append(@, [call |-> c, ret |-> TRUE])]

\* ------------------------------------------------------- odds event mapper
\* No event mapped.
NoMapping == [done |-> FALSE]

\* Values of the decoded JSON payload, with their Python type. A string is
\* its sequence of characters; a number is the rational it denotes.
PyStr(chars) == [type |-> "str", v |-> chars]
NotStr == [type |-> "NoneType", v |-> <<>>]
PyInt(n) == [type |-> "int", v |-> <<n, 1>>]
PyFloat(x) == [type |-> "float", v |-> x]
PyNone == [type |-> "NoneType", v |-> NULLF]

\* A datetime: wall-clock minutes and microseconds, and its tzinfo (aware
\* with a UTC offset in hours, or naive).
DateTime(wall, us, aware, off) ==
    [wall |-> wall, us |-> us, aware |-> aware, off |-> off]

\* A last_update value: an ISO string ending in Z, carrying an offset or
\* carrying none; a string that is no date; or no string at all.
IsoString(wall, us, suffix, off) ==
    [type |-> "str", parses |-> TRUE, wall |-> wall, us |-> us,
     suffix |-> suffix, off |-> off]
BadString ==
    [type |-> "str", parses |-> FALSE, wall |-> 0, us |-> 0,
     suffix |-> "none", off |-> 0]
NoString ==
    [type |-> "NoneType", parses |-> FALSE, wall |-> 0, us |-> 0,
     suffix |-> "none", off |-> 0]

\* dt.astimezone(timezone.utc)
AsTimezoneUtc(dt) ==
    DateTime(dt.wall - 60 * dt.off, dt.us, TRUE, 0)

\* dt.replace(microsecond=0)
ReplaceMicrosecond0(dt) == [dt EXCEPT !.us = 0]

\* _parse_iso_utc(s): <<>> for None, <<dt>> otherwise
ParseIsoUtc(s) ==
    IF ~s.parses THEN <<>>
    ELSE LET dt == DateTime(s.wall, s.us, s.suffix # "none",
                            IF s.suffix = "offset" THEN s.off ELSE 0)
             aware == IF dt.aware THEN dt ELSE [dt EXCEPT !.aware = TRUE, !.off = 0]
         IN <<ReplaceMicrosecond0(AsTimezoneUtc(aware))>>

\* str.lower() on the characters used
LowerChar(c) ==
    CASE c = "A" -> "a"
      [] c = "M" -> "m"
      [] OTHER -> c

\* s.replace(old, new), old one character and new a sequence of characters
RECURSIVE StrReplace(_, _, _)
StrReplace(s, old, new) ==
    IF s = <<>> THEN <<>>
    ELSE (IF Head(s) = old THEN new ELSE <<Head(s)>>)
         \o StrReplace(Tail(s), old, new)

\* " ".join(s.split())
JoinSplit(s) ==
    LET F[i \in 0..Len(s)] ==
            IF i = 0 THEN <<>>
            ELSE IF s[i] = " " THEN F[i - 1]
            ELSE IF i > 1 /\ s[i - 1] = " " /\ F[i - 1] # <<>>
                 THEN F[i - 1] \o <<" ", s[i]>>
                 ELSE Append(F[i - 1], s[i])
    IN F[Len(s)]

\* _norm(s)
Norm(s) ==
    JoinSplit(
        StrReplace(
            StrReplace(
                StrReplace([i \in DOMAIN s |-> LowerChar(s[i])], ".", <<>>),
                "-", <<" ">>),
            "&", <<"a", "n", "d">>))

\* _side_home_away: <<>> for None
SideHomeAway(outcome_name, home_team, away_team) ==
    IF Norm(outcome_name) = Norm(home_team) THEN <<"HOME">>
    ELSE IF Norm(outcome_name) = Norm(away_team) THEN <<"AWAY">>
    ELSE <<>>

\* Faulty variant: the bookmaker's last_update is preferred
CapturedAtBookmakerFirst(m_captured_at, bm_captured_at, fetched_at) ==
    IF bm_captured_at # <<>> THEN bm_captured_at[1]
    ELSE IF m_captured_at # <<>> THEN m_captured_at[1]
    ELSE ReplaceMicrosecond0(fetched_at)

\* m_captured_at or bm_captured_at or fetched_at.replace(microsecond=0)
CapturedAt(m_captured_at, bm_captured_at, fetched_at) ==
    IF m_captured_at # <<>> THEN m_captured_at[1]
    ELSE IF bm_captured_at # <<>> THEN bm_captured_at[1]
    ELSE ReplaceMicrosecond0(fetched_at)

SnapshotRow(bm, captured_at, market_type, side, line, price, provider) ==
    [book_key |-> bm.key.v, book_name |-> bm.title.v,
     captured_at |-> captured_at, market_type |-> market_type,
     side_type |-> side, line |-> line, price |-> price.v,
     is_closing |-> FALSE, provider |-> provider]

\* The h2h branch over the outcomes of one market.
RECURSIVE MoneylineRows(_, _, _, _, _)
MoneylineRows(event, bm, captured_at, outcomes, provider) ==
    IF outcomes = <<>> THEN <<>>
    ELSE LET o == Head(outcomes)
             rest == MoneylineRows(event, bm, captured_at, Tail(outcomes), provider)
         IN IF o.name.type # "str" \/ o.price.type # "int" THEN rest
            ELSE LET side == SideHomeAway(o.name.v, event.home_team.v, event.away_team.v)
                 IN IF side = <<>> THEN rest
                    ELSE <<SnapshotRow(bm, captured_at, "MONEYLINE", side[1],
                                       PyNone, o.price, provider)>> \o rest

\* The spreads branch over the outcomes of one market.
RECURSIVE SpreadRows(_, _, _, _, _)
SpreadRows(event, bm, captured_at, outcomes, provider) ==
    IF outcomes = <<>> THEN <<>>
    ELSE LET o == Head(outcomes)
             rest == SpreadRows(event, bm, captured_at, Tail(outcomes), provider)
         IN IF \/ o.name.type # "str"
               \/ o.price.type # "int"
               \/ o.point.type \notin {"int", "float"}
            THEN rest
            ELSE LET side == SideHomeAway(o.name.v, event.home_team.v, event.away_team.v)
                 IN IF side = <<>> THEN rest
                    ELSE <<SnapshotRow(bm, captured_at, "SPREAD", side[1],
                                       PyFloat(o.point.v), o.price, provider)>> \o rest

\* The body of the loop over a bookmaker's markets.
RECURSIVE MarketRows(_, _, _, _, _, _)
MarketRows(event, bm, bm_captured_at, markets, fetched_at, provider) ==
    IF markets = <<>> THEN <<>>
    ELSE LET m == Head(markets)
             m_captured_at ==
                 IF m.last_update.type = "str" THEN ParseIsoUtc(m.last_update)
                 ELSE <<>>
             captured_at == CapturedAt(m_captured_at, bm_captured_at, fetched_at)
             here ==
                 CASE m.key = "h2h" ->
                          MoneylineRows(event, bm, captured_at, m.outcomes, provider)
                   [] m.key = "spreads" ->
                          SpreadRows(event, bm, captured_at, m.outcomes, provider)
                   [] OTHER -> <<>>
         IN here \o MarketRows(event, bm, bm_captured_at, Tail(markets),
                               fetched_at, provider)

\* The body of the loop over the event's bookmakers.
RECURSIVE BookmakerRows(_, _, _, _)
BookmakerRows(event, bookmakers, fetched_at, provider) ==
    IF bookmakers = <<>> THEN <<>>
    ELSE LET bm == Head(bookmakers)
             rest == BookmakerRows(event, Tail(bookmakers), fetched_at, provider)
             bm_captured_at ==
                 IF bm.last_update.type = "str" THEN ParseIsoUtc(bm.last_update)
                 ELSE <<>>
         IN IF bm.key.type # "str" \/ bm.title.type # "str" THEN rest
            ELSE MarketRows(event, bm, bm_captured_at, bm.markets,
                            fetched_at, provider) \o rest

\* map_event_to_snapshots(event, fetched_at=fetched_at, provider=provider)
MapEventToSnapshots(event, fetched_at, provider) ==
    IF event.home_team.type # "str" \/ event.away_team.type # "str" THEN <<>>
    ELSE BookmakerRows(event, event.bookmakers, fetched_at, provider)

\* ------------------------------------------------------------------- state
VARIABLES
    games,      \* the games table, in storage order
    tgs,        \* the committed rows of team_game_state
    args,       \* league_id, season_id, commit_every_games of the command
    pc,         \* "idle", "loop", "avg_points", "rollups", "done", "failed",
                \* "aborted"
    stream,     \* the ordered list `games` of the run
    idx,        \* enumerate(games, start=1)
    dicts,      \* last3, last5, season_tot_pf, season_tot_pa, season_cnt
    buffer,     \* rows not yet committed
    inserted,   \* rows committed by this run
    result,     \* the value the last run returned
    prev,       \* the table and return value the previous run left
    rerun,      \* TRUE once the command has been run again
    training,   \* the rows the training query last returned
    calc,       \* one shrink computation: its inputs and its results
    peak,       \* the most rows the buffer has held during the run
    fetched,    \* TRUE once the training query has run on the tables as they are
    bl,         \* the last baseline run: its splits and how it ended
    odds,       \* the session of the odds ingest: odds_snapshots and its calls
    mapping,    \* one odds event, and the rows the mapper made of it
    stats,      \* the box scores on file (team_game_stats with its extension)
    raised      \* the limit of the last fetch_training_rows and what it raised

vars == <<games, tgs, args, pc, stream, idx, dicts, buffer, inserted, result,
          prev, rerun, training, calc, peak, fetched, bl, odds, mapping, stats,
          raised>>

\* The variables of the backfill job and of what reads its tables.
jobVars == <<games, tgs, args, pc, stream, idx, dicts, buffer, inserted, result,
             prev, rerun, training, peak, fetched, bl, stats, raised>>

Args(l, s, c) == [league_id |-> l, season_id |-> s, commit_every_games |-> c]

DefaultArgs == Args(NULL, NULL, DefaultCommitEvery)

\* Command lines tried on a slate: a batch size of 2, a season filter, and a
\* league filter that matches no game.
SlateArgs ==
    {DefaultArgs, Args(NULL, NULL, 2), Args(NULL, 1, DefaultCommitEvery),
     Args(2, NULL, DefaultCommitEvery)}

IdleRun ==
    /\ tgs = {}
    /\ pc = "idle"
    /\ stream = <<>>
    /\ idx = 0
    /\ dicts = EmptyDicts
    /\ buffer = <<>>
    /\ inserted = 0
    /\ result = 0
    /\ prev = [rows |-> {}, result |-> 0]
    /\ rerun = FALSE
    /\ peak = 0

Idle ==
    /\ IdleRun
    /\ training = <<>>
    /\ fetched = FALSE
    /\ bl = NoBaseline
    /\ raised = NoFetch

\* The shrink computation at rest.
Calc(value, k, gp, before) ==
    [value |-> value, k |-> k, gp |-> gp,
     w |-> ShrinkWeight(gp, k),
     out |-> Shrink(value, gp, k),
     sql |-> ShrinkSql(value, gp, k),
     before |-> before]

NoCalc == Calc(ZeroF, 1, 0, ZeroF)

\* Season of the i-th meeting of a rivalry.
SeasonLength == 4
SeasonOf(i) == IF i <= SeasonLength THEN 1 ELSE 2

\* Teams 1 and 2 meet up to MaxGames times, one game per kickoff time, each
\* meeting ending 20-10 at team 1's or 17-14 at team 2's.
InitRivalry ==
    /\ \E n \in 1..MaxGames : \E f \in [1..n -> {1, 2}] :
          games = [i \in 1..n |-> Game(i, i, SeasonOf(i), Results[f[i]])]
    /\ args = DefaultArgs
    /\ Idle

\* A short slate over three teams and two seasons, some games not final.
InitSlate ==
    /\ \E n \in 1..MaxSlate :
       \E f \in [1..n -> SlateFixtures] : \E s \in [1..n -> Seasons] :
          games = [i \in 1..n |-> Game(i, i, s[i], f[i])]
    /\ args \in SlateArgs
    /\ Idle

\* Games sharing kickoff times, stored in any order.
InitKickoff ==
    /\ \E n \in 1..MaxTied :
       \E t \in [1..n -> 1..2] :
       \E p \in {q \in [1..n -> 1..n] : \A i, j \in 1..n : i # j => q[i] # q[j]} :
          games = [k \in 1..n |-> Game(p[k], t[p[k]], 1, Results[((p[k] - 1) % 3) + 1])]
    /\ args \in {DefaultArgs, Args(NULL, NULL, 1)}
    /\ Idle

\* One pairing's fixture list with some games not yet played, backfilled in
\* batches of two games.
PendingFixtures == {Fixture(1, 2, 20, 10), Fixture(1, 2, NULL, NULL)}

InitPending ==
    /\ \E n \in 1..MaxPending : \E f \in [1..n -> PendingFixtures] :
          games = [i \in 1..n |-> Game(i, i, 1, f[i])]
    /\ args = Args(NULL, NULL, 2)
    /\ Idle

\* No odds, event or shrink computation is under way.
Apart == calc = NoCalc /\ odds = NoOdds /\ mapping = NoMapping

\* Nothing but the job is under way, and no box score is on file.
JobOnly == Apart /\ stats = {}

Init == (InitRivalry \/ InitSlate \/ InitKickoff \/ InitPending) /\ JobOnly

\* --------------------------------------------------------------- actions
\* backfill_team_game_state up to the loop: the ordered query, the early
\* return on no games, the committed delete of the scope, the empty dicts.
BeginAs(a) ==
    LET gs == SelectGames(games, a.league_id, a.season_id) IN
    /\ args' = a
    /\ raised' = NoFetch
    /\ prev' = [rows |-> tgs, result |-> result]
    /\ training' = <<>>
    /\ peak' = 0
    /\ fetched' = FALSE
    /\ bl' = NoBaseline
    /\ stream' = gs
    /\ dicts' = EmptyDicts
    /\ buffer' = <<>>
    /\ inserted' = 0
    /\ IF gs = <<>>
       THEN /\ pc' = "done"
            /\ result' = 0
            /\ idx' = 0
            /\ UNCHANGED tgs
       ELSE /\ pc' = "loop"
            /\ idx' = 1
            /\ tgs' = DeleteScope(tgs, games, a.league_id, a.season_id)
            /\ UNCHANGED result
    /\ UNCHANGED <<stats, games, calc, odds, mapping>>

\* The command as it was given.
Begin == BeginAs(args)

Start ==
    /\ pc = "idle"
    /\ Begin
    /\ UNCHANGED rerun

Rerun ==
    /\ pc \in {"done", "failed"}
    /\ Begin
    /\ rerun' = TRUE

\* One iteration of `for idx, g in enumerate(games, start=1)`.
ProcessGame ==
    /\ pc = "loop"
    /\ idx <= Len(stream)
    /\ LET g == stream[idx] IN
       IF Skipped(g)
       THEN /\ idx' = idx + 1
            /\ UNCHANGED <<tgs, pc, dicts, buffer, inserted, peak>>
       ELSE LET b == LoopBody(dicts, g)
                buf == buffer \o b.rows
            IN /\ dicts' = b.dicts
               /\ peak' = IF Len(buf) > peak THEN Len(buf) ELSE peak
               /\ IF idx % args.commit_every_games = 0
                  THEN IF UniqueOk(tgs, buf)
                       THEN /\ tgs' = FlushRows(tgs, buf)
                            /\ inserted' = inserted + Len(buf)
                            /\ buffer' = <<>>
                            /\ idx' = idx + 1
                            /\ UNCHANGED pc
                       ELSE /\ pc' = "failed"
                            /\ buffer' = buf
                            /\ UNCHANGED <<tgs, inserted, idx>>
                  ELSE /\ buffer' = buf
                       /\ idx' = idx + 1
                       /\ UNCHANGED <<tgs, pc, inserted>>
    /\ UNCHANGED <<raised, stats, games, args, stream, result, prev, rerun, training, calc,
                   fetched, bl, odds, mapping>>

\* `if buffer:` after the loop.
FinalFlush ==
    /\ pc = "loop"
    /\ idx > Len(stream)
    /\ IF buffer = <<>>
       THEN /\ pc' = "avg_points"
            /\ UNCHANGED <<tgs, inserted, buffer>>
       ELSE IF UniqueOk(tgs, buffer)
            THEN /\ tgs' = FlushRows(tgs, buffer)
                 /\ inserted' = inserted + Len(buffer)
                 /\ pc' = "avg_points"
                 /\ UNCHANGED buffer
            ELSE /\ pc' = "failed"
                 /\ UNCHANGED <<tgs, inserted, buffer>>
    /\ UNCHANGED <<raised, stats, games, args, stream, idx, dicts, result, prev, rerun, training,
                   calc, peak, fetched, bl, odds, mapping>>

\* backfill_team_game_state_avg_points(session)
AvgPoints ==
    /\ pc = "avg_points"
    /\ tgs' = AvgPointsPass(tgs)
    /\ pc' = "rollups"
    /\ UNCHANGED <<raised, stats, games, args, stream, idx, dicts, buffer, inserted, result,
                   prev, rerun, training, calc, peak, fetched, bl, odds, mapping>>

\* backfill_team_game_state_football_rollups(session), then `return inserted`.
Rollups ==
    /\ pc = "rollups"
    /\ tgs' = RollupsPass(tgs, games, stats)
    /\ pc' = "done"
    /\ result' = inserted
    /\ UNCHANGED <<raised, stats, games, args, stream, idx, dicts, buffer, inserted,
                   prev, rerun, training, calc, peak, fetched, bl, odds, mapping>>

\* The run ends on an exception, or the process dies, somewhere after the
\* delete of the scope was committed: what was committed stays, the session's
\* uncommitted rows and the function's local state are gone.
Abort ==
    /\ pc \in {"loop", "avg_points", "rollups"}
    /\ pc' = "aborted"
    /\ stream' = <<>>
    /\ idx' = 0
    /\ dicts' = EmptyDicts
    /\ buffer' = <<>>
    /\ inserted' = 0
    /\ peak' = 0
    /\ UNCHANGED <<raised, stats, games, tgs, args, result, prev, rerun, training, calc,
                   fetched, bl, odds, mapping>>

\* The training query run on the tables as they stand.
FetchTraining ==
    /\ pc = "done"
    /\ ~fetched
    /\ training' = BuildTrainingRows(games, tgs)
    /\ fetched' = TRUE
    /\ UNCHANGED <<raised, stats, games, tgs, args, pc, stream, idx, dicts, buffer, inserted,
                   result, prev, rerun, calc, peak, bl, odds, mapping>>

\* run_baseline_point_diff(session, train_season_cutoff=2018) on the tables
\* as they stand.
Baseline ==
    /\ pc = "done"
    /\ bl.status = "none"
    /\ training' = RepoFetchTrainingRows(games, tgs)
    /\ bl' = RunBaseline(training', DefaultCutoff)
    /\ fetched' = TRUE
    /\ UNCHANGED <<raised, stats, games, tgs, args, pc, stream, idx, dicts, buffer, inserted,
                   result, prev, rerun, calc, peak, odds, mapping>>

Next ==
    \/ Start
    \/ Rerun
    \/ ProcessGame
    \/ FinalFlush
    \/ AvgPoints
    \/ Rollups
    \/ Abort
    \/ FetchTraining
    \/ Baseline

Spec == Init /\ [][Next]_vars

\* ------------------------------------------------- the job with box scores
\* The box scores of game g as the stats ingest left them: none, both
\* teams', or the home team's alone. The second game's away yardage and the
\* third game's home turnovers were not reported.
BoxScoresOf(g, kind) ==
    LET home == BoxScore(g.id, g.home_team_id, 300 + 10 * g.id,
                         IF g.id = 3 THEN NULL ELSE g.id % 3)
        away == BoxScore(g.id, g.away_team_id,
                         IF g.id = 2 THEN NULL ELSE 250 + 7 * g.id,
                         (g.id + 1) % 3)
    IN CASE kind = "both" -> {home, away}
         [] kind = "home" -> {home}
         [] OTHER -> {}

\* Teams 1 and 2 meet up to MaxBox times in one season, any of the games
\* with a box score.
InitBoxRun ==
    /\ \E n \in 1..MaxBox : \E kind \in [1..n -> {"none", "both"}] :
          /\ games = [i \in 1..n |-> Game(i, i, 1, Results[((i - 1) % 3) + 1])]
          /\ stats = UNION {BoxScoresOf(games[i], kind[i]) : i \in 1..n}
    /\ args = DefaultArgs
    /\ Idle
    /\ Apart

\* A short slate over two seasons, some games not final, some box scores
\* missing one side.
InitBoxSlate ==
    /\ \E n \in 1..MaxBoxSlate :
       \E f \in [1..n -> PendingFixtures] : \E s \in [1..n -> Seasons] :
       \E kind \in [1..n -> {"none", "both", "home"}] :
          /\ games = [i \in 1..n |-> Game(i, i, s[i], f[i])]
          /\ stats = UNION {BoxScoresOf(games[i], kind[i]) : i \in 1..n}
    /\ args = DefaultArgs
    /\ Idle
    /\ Apart

InitRollups == InitBoxRun \/ InitBoxSlate

SpecRollups == InitRollups /\ [][Next]_vars

\* ------------------------------------------------- runs with a season filter
\* Most games on file when a season is backfilled again (InitScope).
MaxScope == 4

\* Limits passed to fetch_training_rows.
FetchLimits == {1, FetchLimit}

\* Teams 1 and 2 meet up to MaxScope times, the first k meetings in season 1
\* and the rest in season 2.
InitScope ==
    /\ \E n \in 1..MaxScope : \E k \in 0..n : \E f \in [1..n -> {1, 2}] :
          games = [i \in 1..n |->
                      Game(i, i, IF i <= k THEN 1 ELSE 2, Results[f[i]])]
    /\ args = DefaultArgs
    /\ Idle
    /\ JobOnly

\* After a run over the whole history ended or died, one season is
\* backfilled again: --season-id s.
RunScoped ==
    /\ pc \in {"done", "aborted"}
    /\ ~rerun
    /\ \E s \in Seasons : BeginAs([args EXCEPT !.season_id = s])
    /\ rerun' = TRUE

\* fetch_training_rows(session, limit=limit) on the tables as they stand.
FetchRows ==
    /\ pc = "done"
    /\ ~fetched
    /\ \E limit \in FetchLimits :
          LET out == FetchTrainingRows(games, tgs, limit)
          IN /\ training' = out.rows
             /\ raised' = [error |-> out.error, limit |-> limit]
    /\ fetched' = TRUE
    /\ UNCHANGED <<stats, games, tgs, args, pc, stream, idx, dicts, buffer, inserted,
                   result, prev, rerun, calc, peak, bl, odds, mapping>>

NextScope ==
    \/ Start
    \/ RunScoped
    \/ ProcessGame
    \/ FinalFlush
    \/ AvgPoints
    \/ Rollups
    \/ Abort
    \/ FetchRows

SpecScope == InitScope /\ [][NextScope]_vars

\* ------------------------------------------------- features of drawn snapshots
\* Season-to-date columns of a snapshot: games_played and the two sums.
SeasonCases ==
    {[gp |-> 0, pf |-> 0, pa |-> 0], [gp |-> 1, pf |-> 20, pa |-> 10],
     [gp |-> 4, pf |-> 71, pa |-> 54]}

\* Trailing points columns: no game yet, one game, means of several games,
\* and a column left NULL.
PointsCases ==
    {[o3 |-> ZeroF, d5 |-> ZeroF], [o3 |-> FloatOf(20), d5 |-> FloatOf(10)],
     [o3 |-> <<37, 2>>, d5 |-> <<27, 2>>], [o3 |-> NULLF, d5 |-> <<27, 2>>]}

\* Rollup columns: no box score, a few turnovers, many takeaways, and many
\* turnovers committed.
BoxCases ==
    {[to3 |-> NULLF, tk5 |-> NULLF, y3 |-> NULLF, ya5 |-> NULLF],
     [to3 |-> FloatOf(1), tk5 |-> FloatOf(2), y3 |-> FloatOf(930), ya5 |-> FloatOf(1480)],
     [to3 |-> ZeroF, tk5 |-> FloatOf(12), y3 |-> FloatOf(1105), ya5 |-> NULLF],
     [to3 |-> FloatOf(9), tk5 |-> NULLF, y3 |-> ZeroF, ya5 |-> ZeroF]}

SnapshotCases ==
    {[season |-> s, points |-> p, box |-> b] :
        s \in SeasonCases, p \in PointsCases, b \in BoxCases}

\* The TeamGameState row of (game, team) holding the drawn columns.
SnapshotOf(g, team, c) ==
    [games_played |-> c.season.gp, season_id |-> g.season_id,
     start_time |-> g.start_time, game_id |-> g.id, team_id |-> team,
     off_pts_l3 |-> c.points.o3, def_pa_l3 |-> c.points.d5,
     off_pts_l5 |-> c.points.o3, def_pa_l5 |-> c.points.d5,
     off_pts_season |-> FloatOf(c.season.pf),
     def_pa_season |-> FloatOf(c.season.pa),
     avg_points_for |-> DivNullIf(c.season.pf, c.season.gp),
     avg_points_against |-> DivNullIf(c.season.pa, c.season.gp),
     avg_point_diff |-> FracSub(DivNullIf(c.season.pf, c.season.gp),
                                DivNullIf(c.season.pa, c.season.gp))]
    @@ [off_yards_l3 |-> c.box.y3, def_yards_allowed_l5 |-> c.box.ya5,
        off_turnovers_l3 |-> c.box.to3, def_takeaways_l5 |-> c.box.tk5]
    @@ NullRollups

\* Two meetings of teams 1 and 2 with scores, the second at team 2's, and
\* drawn snapshots on file: team 1 holds the same columns before both games,
\* and so does team 2, so that the second game is the first with home and
\* away exchanged.
InitFeatures ==
    /\ games = <<Game(1, 1, 1, Results[1]), Game(2, 2, 1, Results[2])>>
    /\ \E c1, c2 \in SnapshotCases :
          tgs = {SnapshotOf(games[i], 1, c1) : i \in 1..2}
                \cup {SnapshotOf(games[i], 2, c2) : i \in 1..2}
    /\ args = DefaultArgs
    /\ pc = "done"
    /\ stream = <<>>
    /\ idx = 0
    /\ dicts = EmptyDicts
    /\ buffer = <<>>
    /\ inserted = 0
    /\ result = 0
    /\ prev = [rows |-> {}, result |-> 0]
    /\ rerun = FALSE
    /\ peak = 0
    /\ training = <<>>
    /\ fetched = FALSE
    /\ bl = NoBaseline
    /\ raised = NoFetch
    /\ JobOnly

SpecFeatures == InitFeatures /\ [][FetchTraining]_vars

\* ------------------------------------------------- shrink as games are played
\* The smoothing constants: 3.0 and 6.0 are the ones the query passes, 1 a
\* third positive one.
ShrinkKs == {1, 3, 6}
RawValues == {FloatOf(v) : v \in (-MaxRaw..MaxRaw) \ {0}} \cup {<<1, 2>>, <<-7, 2>>}

InitShrink ==
    /\ games = <<>>
    /\ args = DefaultArgs
    /\ Idle
    /\ stats = {}
    /\ odds = NoOdds
    /\ mapping = NoMapping
    /\ \E v \in RawValues : \E k \in ShrinkKs : calc = Calc(v, k, 0, ZeroF)

\* The same raw value shrunk for a team with one more game played.
ShrinkNext ==
    /\ calc.gp < MaxGP
    /\ calc' = Calc(calc.value, calc.k, calc.gp + 1, calc.out)
    /\ UNCHANGED <<jobVars, odds, mapping>>

SpecShrink == InitShrink /\ [][ShrinkNext]_vars

\* ------------------------------------------------- the odds ingest session
\* Calls tried: a home spread of -3.5 at two prices, the same at another
\* book, at another capture time, for another game; the away spread; and a
\* moneyline (no line) on the home side at two prices and on the away side.
OddsCalls ==
    {OddsCall(1, 1, 1, "SPREAD", "HOME", <<-7, 2>>, -110),
     OddsCall(1, 1, 1, "SPREAD", "HOME", <<-7, 2>>, -105),
     OddsCall(1, 2, 1, "SPREAD", "HOME", <<-7, 2>>, -110),
     OddsCall(1, 1, 2, "SPREAD", "HOME", <<-7, 2>>, -110),
     OddsCall(2, 1, 1, "SPREAD", "HOME", <<-7, 2>>, -110),
     OddsCall(1, 1, 1, "SPREAD", "AWAY", <<7, 2>>, -110),
     OddsCall(1, 1, 1, "MONEYLINE", "HOME", NULLF, -150),
     OddsCall(1, 1, 1, "MONEYLINE", "HOME", NULLF, -160),
     OddsCall(1, 1, 1, "MONEYLINE", "AWAY", NULLF, 130)}

InitOdds ==
    /\ games = <<>>
    /\ args = DefaultArgs
    /\ Idle
    /\ stats = {}
    /\ calc = NoCalc
    /\ mapping = NoMapping
    /\ odds = NoOdds

Upsert ==
    /\ Len(odds.log) < MaxCalls
    /\ \E c \in OddsCalls : odds' = UpsertOddsSnapshot(odds, c)
    /\ UNCHANGED <<jobVars, calc, mapping>>

\* session.commit() of the ingest command
CommitOdds ==
    /\ odds.pending # <<>>
    /\ odds' = Flush(odds)
    /\ UNCHANGED <<jobVars, calc, mapping>>

OddsNext == Upsert \/ CommitOdds

SpecOdds == InitOdds /\ [][OddsNext]_vars

\* ------------------------------------------------- mapping one odds event
\* "A & M" at home against "M-A"; and a fixture whose two team names
\* normalise to the same string.
TeamPairs ==
    {<<PyStr(<<"A", " ", "&", " ", "M">>), PyStr(<<"M", "-", "A">>)>>,
     <<PyStr(<<"M", "-", "A">>), PyStr(<<"m", " ", " ", "a">>)>>}

\* Outcome names: "a and m", "A  & M.", "A&M", "M a", and a name that is not
\* a string.
OutcomeNames ==
    {PyStr(<<"a", " ", "a", "n", "d", " ", "m">>),
     PyStr(<<"A", " ", " ", "&", " ", "M", ".">>),
     PyStr(<<"A", "&", "M">>),
     PyStr(<<"M", " ", "a">>),
     NotStr}

\* American price with an integer or a half-point line, a decimal price, and
\* an outcome without a point.
PricePoints ==
    {<<PyInt(-110), PyInt(-3)>>,
     <<PyInt(-110), PyFloat(<<-7, 2>>)>>,
     <<PyFloat(<<191, 100>>), PyFloat(<<-7, 2>>)>>,
     <<PyInt(105), PyNone>>}

Outcomes ==
    {[name |-> n, price |-> pp[1], point |-> pp[2]] :
        n \in OutcomeNames, pp \in PricePoints}

\* 10:00Z; 12:30+02:00 with microseconds; 11:00 without a zone; a string
\* that is no date; no last_update.
LastUpdates ==
    {IsoString(600, 0, "Z", 0), IsoString(750, 250, "offset", 2),
     IsoString(660, 0, "none", 0), BadString, NoString}

\* datetime.now(UTC); a wrapper timestamp that carries an offset, or none.
FetchedAts ==
    {DateTime(900, 123, TRUE, 0), DateTime(900, 123, TRUE, 2),
     DateTime(900, 0, FALSE, 0)}

Market(key, last_update, outcomes) ==
    [key |-> key, last_update |-> last_update, outcomes |-> outcomes]

Bookmaker(key, last_update, markets) ==
    [key |-> key, title |-> key, last_update |-> last_update,
     markets |-> markets]

Event(home_team, away_team, bookmakers) ==
    [home_team |-> home_team, away_team |-> away_team,
     bookmakers |-> bookmakers]

Unmapped(event, fetched_at, provider) ==
    [done |-> FALSE, event |-> event, fetched_at |-> fetched_at,
     provider |-> provider, rows |-> <<>>]

MapperOnly ==
    /\ games = <<>>
    /\ args = DefaultArgs
    /\ Idle
    /\ stats = {}
    /\ calc = NoCalc
    /\ odds = NoOdds

\* One bookmaker with one spreads market, its outcomes drawn.
InitOutcomes ==
    /\ MapperOnly
    /\ \E pair \in TeamPairs, n \in 1..MaxOutcomes :
         \E outcomes \in [1..n -> Outcomes] :
             mapping =
                 Unmapped(Event(pair[1], pair[2],
                                <<Bookmaker(PyStr(<<"b", "1">>),
                                            IsoString(600, 0, "Z", 0),
                                            <<Market("spreads",
                                                     IsoString(600, 0, "Z", 0),
                                                     outcomes)>>)>>),
                          DateTime(900, 123, TRUE, 0), "odds-api")

\* Two bookmakers with a moneyline and a spreads market each, the first
\* bookmaker's key, the home team and the timestamps drawn.
InitTimestamps ==
    /\ MapperOnly
    /\ \E home_team \in {PyStr(<<"A", " ", "&", " ", "M">>), NotStr},
          key \in {PyStr(<<"b", "1">>), NotStr},
          bm_last_update \in LastUpdates, m_last_update \in LastUpdates,
          fetched_at \in FetchedAts, provider \in {"odds-api", "replay"} :
         LET away_team == PyStr(<<"M", "-", "A">>)
             outcomes ==
                 <<[name |-> PyStr(<<"a", " ", "a", "n", "d", " ", "m">>),
                    price |-> PyInt(-110), point |-> PyFloat(<<-7, 2>>)],
                   [name |-> PyStr(<<"M", " ", "a">>),
                    price |-> PyInt(-110), point |-> PyFloat(<<7, 2>>)]>>
             markets(lu) ==
                 <<Market("h2h", NoString, outcomes),
                   Market("spreads", lu, outcomes),
                   Market("team_totals", lu, outcomes)>>
         IN mapping =
                Unmapped(Event(home_team, away_team,
                               <<Bookmaker(key, bm_last_update,
                                           markets(m_last_update)),
                                 Bookmaker(PyStr(<<"b", "2">>), NoString,
                                           markets(NoString))>>),
                         fetched_at, provider)

InitMapper == InitOutcomes \/ InitTimestamps

MapEvent ==
    /\ ~mapping.done
    /\ mapping' =
           [mapping EXCEPT
               !.done = TRUE,
               !.rows = MapEventToSnapshots(mapping.event, mapping.fetched_at,
                                            mapping.provider)]
    /\ UNCHANGED <<jobVars, calc, odds>>

SpecMapper == InitMapper /\ [][MapEvent]_vars

\* ------------------------------------------- the baseline on assembled rows
\* The five features of a row as the query can return them: all numbers; no
\* league average (the first kickoff of a season); no yards edge either (no
\* box score); and floats that are not finite.
FeatureCases ==
    {<<FloatOf(1), FloatOf(2), FloatOf(-1), <<1, 2>>, FloatOf(45)>>,
     <<FloatOf(1), FloatOf(2), FloatOf(-1), <<1, 2>>, NULLF>>,
     <<ZeroF, NULLF, ZeroF, ZeroF, NULLF>>,
     <<FloatOf(1), FloatOf(2), NEGINF, INF, FloatOf(45)>>}

\* GameTrainingRow, of which the baseline reads season_year, the five
\* features and point_diff.
AssembledRow(id, year, f) ==
    [game_id |-> id, season_year |-> year, point_diff |-> 3,
     matchup_edge_l3_l5 |-> f[1], off_yards_edge_l3_l5 |-> f[2],
     turnover_edge_l3_l5 |-> f[3], season_strength |-> f[4],
     league_avg_pts_season_to_date |-> f[5]]

\* The cutoffs tried: the default, the year before and the year after.
Cutoffs == {DefaultCutoff - 1, DefaultCutoff, DefaultCutoff + 1}

InitBaseline ==
    /\ games = <<>>
    /\ args = DefaultArgs
    /\ IdleRun
    /\ \E n \in 1..MaxRows :
       \E y \in [1..n -> {SeasonYear(1), SeasonYear(2)}] :
       \E f \in [1..n -> FeatureCases] :
          training = [i \in 1..n |-> AssembledRow(i, y[i], f[i])]
    /\ fetched = TRUE
    /\ bl = NoBaseline
    /\ raised = NoFetch
    /\ JobOnly

\* run_baseline_point_diff on the rows fetched.
BaselineOn ==
    /\ bl.status = "none"
    /\ \E cutoff \in Cutoffs : bl' = RunBaseline(training, cutoff)
    /\ UNCHANGED <<raised, stats, games, tgs, args, pc, stream, idx, dicts, buffer, inserted,
                   result, prev, rerun, training, calc, peak, fetched, odds,
                   mapping>>

SpecBaseline == InitBaseline /\ [][BaselineOn]_vars

\* ================================================================ claims
\* What the claims speak of, stated on the games table itself.
GameSet == SeqToSet(games)
ScopeGames == {g \in GameSet : InScope(g, args.league_id, args.season_id)}
Completed(g) == g.home_score # NULL /\ g.away_score # NULL
Involves(T, g) == g.home_team_id = T \/ g.away_team_id = T
\* The total order (start_time asc, id asc).
Precedes(a, b) ==
    a.start_time < b.start_time \/ (a.start_time = b.start_time /\ a.id < b.id)

PointsFor(T, g) == IF g.home_team_id = T THEN g.home_score ELSE g.away_score
PointsAgainst(T, g) == IF g.home_team_id = T THEN g.away_score ELSE g.home_score

\* The completed in-scope games of team T before game G.
PriorOf(T, G) ==
    {g \in ScopeGames : Completed(g) /\ Involves(T, g) /\ Precedes(g, G)}

Latest(S) == CHOOSE g \in S : \A h \in S : h = g \/ Precedes(h, g)

RECURSIVE MostRecent(_, _)
MostRecent(S, n) ==
    IF n = 0 \/ S = {} THEN {}
    ELSE LET m == Latest(S) IN {m} \cup MostRecent(S \ {m}, n - 1)

RECURSIVE TotalFor(_, _)
TotalFor(S, T) ==
    IF S = {} THEN 0
    ELSE LET g == CHOOSE x \in S : TRUE IN PointsFor(T, g) + TotalFor(S \ {g}, T)

RECURSIVE TotalAgainst(_, _)
TotalAgainst(S, T) ==
    IF S = {} THEN 0
    ELSE LET g == CHOOSE x \in S : TRUE IN PointsAgainst(T, g) + TotalAgainst(S \ {g}, T)

MeanFor(S, T) == IF S = {} THEN ZeroF ELSE Frac(TotalFor(S, T), Cardinality(S))
MeanAgainst(S, T) == IF S = {} THEN ZeroF ELSE Frac(TotalAgainst(S, T), Cardinality(S))

\* The snapshot rows under examination: inside the loop the rows of the game
\* just processed, committed or still buffered; once the run has returned,
\* every row of the table.
Emitted ==
    IF pc = "done" THEN tgs
    ELSE IF pc = "loop" /\ idx > 1
         THEN {r \in tgs \cup SeqToSet(buffer) : r.game_id = stream[idx - 1].id}
         ELSE {}
GameOf(r) == CHOOSE g \in GameSet : g.id = r.game_id

\* C1 (causality). Every emitted row of team T and game G, when it is
\* emitted and when the run has returned, has games_played,
\* the l3/l5 means and the season sums equal to what the completed games of T
\* that precede G in (start_time, id) order give on their own: the count and
\* sums over those of G's season, the means over the latest 3 and 5 of them.
\* G and every later game take no part.
C1_Causality ==
    \A r \in Emitted :
        LET G == GameOf(r)
            T == r.team_id
            P == PriorOf(T, G)
            PS == {g \in P : g.season_id = G.season_id}
        IN /\ r.games_played = Cardinality(PS)
           /\ r.off_pts_l3 = MeanFor(MostRecent(P, 3), T)
           /\ r.def_pa_l3 = MeanAgainst(MostRecent(P, 3), T)
           /\ r.off_pts_l5 = MeanFor(MostRecent(P, 5), T)
           /\ r.def_pa_l5 = MeanAgainst(MostRecent(P, 5), T)
           /\ r.off_pts_season = FloatOf(TotalFor(PS, T))
           /\ r.def_pa_season = FloatOf(TotalAgainst(PS, T))

\* A row of a team with an earlier completed game and a later completed game.
C1_Witness ==
    \E r \in Emitted :
        /\ PriorOf(r.team_id, GameOf(r)) # {}
        /\ \E g \in ScopeGames :
              Completed(g) /\ Involves(r.team_id, g) /\ Precedes(GameOf(r), g)

\* C2 (two rows per completed game). When a run has returned, every in-scope
\* game with both scores has exactly two rows, one for its home team and one
\* for its away team, every other in-scope game has none, and the value
\* returned is the number of rows the run committed, twice the number of
\* completed in-scope games. While the loop runs, `inserted` counts the rows
\* committed so far.
RowsOf(g) == {r \in tgs : r.game_id = g.id}
ScopeRows == {r \in tgs : \E g \in ScopeGames : g.id = r.game_id}
CompletedInScope == {g \in ScopeGames : Completed(g)}

C2_TwoRowsPerGame ==
    /\ pc = "done" =>
          /\ \A g \in ScopeGames :
                IF Completed(g)
                THEN /\ Cardinality(RowsOf(g)) = 2
                     /\ {r.team_id : r \in RowsOf(g)} = {g.home_team_id, g.away_team_id}
                ELSE RowsOf(g) = {}
          /\ result = Cardinality(ScopeRows)
          /\ result = 2 * Cardinality(CompletedInScope)
    /\ pc \in {"loop", "avg_points", "rollups"} => inserted = Cardinality(ScopeRows)

\* A run that returned after a batch was committed inside the loop, over a
\* scope holding a completed game and a game without a final score.
C2_Witness ==
    /\ pc = "done"
    /\ result >= 2
    /\ \E i \in DOMAIN stream :
          i % args.commit_every_games = 0 /\ Completed(stream[i])
    /\ \E g \in ScopeGames : ~Completed(g)

\* C3 (window eviction). In every emitted row of team T and game G, for
\* N = 3 and N = 5: once T has more than N completed games before G, the
\* points-for and points-against means of the N-window are the means over
\* exactly the N most recent of them.
WindowIs(r, N, off, def) ==
    LET T == r.team_id
        P == PriorOf(T, GameOf(r))
        W == MostRecent(P, N)
    IN Cardinality(P) > N =>
          /\ Cardinality(W) = N
          /\ off[2] * TotalFor(W, T) = off[1] * N
          /\ def[2] * TotalAgainst(W, T) = def[1] * N
          /\ off[2] > 0 /\ def[2] > 0

C3_WindowEviction ==
    \A r \in Emitted :
        /\ WindowIs(r, L3, r.off_pts_l3, r.def_pa_l3)
        /\ WindowIs(r, L5, r.off_pts_l5, r.def_pa_l5)

\* A row of a team with more than five earlier completed games, the oldest
\* of which saw a different score than the newest.
C3_Witness ==
    \E r \in Emitted :
        LET T == r.team_id
            P == PriorOf(T, GameOf(r))
        IN /\ Cardinality(P) > L5
           /\ \E g \in P \ MostRecent(P, L5) :
                 PointsFor(T, g) # PointsFor(T, Latest(P))

\* C4 (zero history, trailing windows). An emitted row of a team with no
\* completed game earlier in the processed stream has games_played = 0 and
\* the four window means equal to 0.0, none of them NULL.
C4_ZeroHistory ==
    \A r \in Emitted :
        PriorOf(r.team_id, GameOf(r)) = {} =>
            /\ r.games_played = 0
            /\ r.off_pts_l3 = ZeroF /\ r.def_pa_l3 = ZeroF
            /\ r.off_pts_l5 = ZeroF /\ r.def_pa_l5 = ZeroF

\* A first-game row next to a row of the same team that has history.
C4_Witness ==
    \E r \in Emitted :
        /\ PriorOf(r.team_id, GameOf(r)) = {}
        /\ \E q \in Emitted : q.team_id = r.team_id /\ q.off_pts_l3 # ZeroF

\* C5 as claimed (season averages of a first game are the 0.0 sentinel):
\* after a run has returned, every row with games_played = 0 has
\* avg_points_for = avg_points_against = 0.0.
C5_AsClaimed ==
    pc = "done" =>
        \A r \in tgs :
            r.games_played = 0 =>
                r.avg_points_for = ZeroF /\ r.avg_points_against = ZeroF

\* C5 (amended). After a run has returned, every row with games_played = 0
\* has avg_points_for, avg_points_against and avg_point_diff NULL, and its
\* season sums off_pts_season and def_pa_season are 0.0.
C5_FirstGameAvgNull ==
    pc = "done" =>
        \A r \in tgs :
            r.games_played = 0 =>
                /\ r.avg_points_for = NULLF
                /\ r.avg_points_against = NULLF
                /\ r.avg_point_diff = NULLF
                /\ r.off_pts_season = ZeroF
                /\ r.def_pa_season = ZeroF

\* A finished run that left a first-game row beside a row whose averages the
\* closing pass did set.
C5_Witness ==
    /\ pc = "done"
    /\ \E r \in tgs : r.games_played = 0
    /\ \E r \in tgs : r.games_played > 0 /\ r.avg_points_for # NULLF

\* C6 (idempotent recomputation). When the same command has been run again
\* on the unchanged games table and has returned, the table holds the same
\* rows as after the run before and the same value is returned; no two rows
\* ever share (team_id, game_id), and no run ends on an integrity error.
C6_Idempotent ==
    /\ (rerun /\ pc = "done") => (tgs = prev.rows /\ result = prev.result)
    /\ \A r1, r2 \in tgs :
          (r1.team_id = r2.team_id /\ r1.game_id = r2.game_id) => r1 = r2
    /\ pc # "failed"

\* A second run that returned, over a table that holds rows with averages.
C6_Witness ==
    /\ rerun
    /\ pc = "done"
    /\ result > 0
    /\ \E r \in tgs : r.avg_points_for # NULLF

\* C7 (sort determinism). The rows a finished run leaves are those obtained
\* by walking the set of in-scope games from its earliest to its latest
\* member in (start_time, id) order, whatever order the games are stored in.
Earliest(S) == CHOOSE g \in S : \A h \in S : h = g \/ Precedes(g, h)

RECURSIVE WalkSet(_, _)
WalkSet(S, d) ==
    IF S = {} THEN {}
    ELSE LET g == Earliest(S) IN
         IF Completed(g)
         THEN SeqToSet(LoopBody(d, g).rows) \cup WalkSet(S \ {g}, LoopBody(d, g).dicts)
         ELSE WalkSet(S \ {g}, d)

C7_SortDeterminism ==
    pc = "done" => ScopeRows = AvgPointsPass(WalkSet(ScopeGames, EmptyDicts))

\* A finished run over games stored out of order, two of them with the same
\* start_time and the larger id stored first.
C7_Witness ==
    /\ pc = "done"
    /\ tgs # {}
    /\ \E i, j \in DOMAIN games :
          /\ i < j
          /\ games[i].start_time = games[j].start_time
          /\ games[j].id < games[i].id

\* C8 (strictly-before league average). In every training row of game G,
\* league_avg_pts_season_to_date is the mean of home_score + away_score over
\* the games of G's season with both scores and an earlier start_time, when
\* there is one; G and the games starting with or after it are left out.
EarlierInSeason(G) ==
    {g \in GameSet :
        g.season_id = G.season_id /\ Completed(g) /\ g.start_time < G.start_time}

RECURSIVE TotalPoints(_)
TotalPoints(S) ==
    IF S = {} THEN 0
    ELSE LET g == CHOOSE x \in S : TRUE
         IN g.home_score + g.away_score + TotalPoints(S \ {g})

C8_LeagueAvgStrictlyBefore ==
    \A i \in DOMAIN training :
        LET avg == training[i].league_avg_pts_season_to_date
            E == EarlierInSeason(CHOOSE g \in GameSet : g.id = training[i].game_id)
        IN E # {} =>
              /\ avg[2] > 0
              /\ avg[1] * Cardinality(E) = avg[2] * TotalPoints(E)

\* The training row of a third game, two completed games of its season
\* having started earlier and a completed game starting after it.
C8_Witness ==
    \E i \in DOMAIN training :
        LET G == CHOOSE g \in GameSet : g.id = training[i].game_id
        IN /\ Cardinality(EarlierInSeason(G)) = 2
           /\ \E g \in GameSet :
                 g.season_id = G.season_id /\ Completed(g) /\ G.start_time < g.start_time

\* C9 (perspective). After a completed game is processed, the newest entry
\* of the home team's windows is (home_score, away_score) and of the away
\* team's (away_score, home_score), and each season sum is the team's own
\* points over the processed games. For team 1: after 20-10 at home its next
\* row has games_played 1 and means 20.0 / 10.0; after 20-10 at home and
\* 14-17 away its next row has games_played 2 and l3 means 17.0 / 13.5.
Last(w) == w[Len(w)]
Processed == {stream[i] : i \in 1..(idx - 1)}
ProcessedOf(T, S) ==
    {g \in Processed : Completed(g) /\ Involves(T, g) /\ g.season_id = S}

C9_Perspective ==
    /\ (pc = "loop" /\ idx > 1 /\ Completed(stream[idx - 1])) =>
          LET g == stream[idx - 1] IN
          /\ Last(dicts.last3[g.home_team_id]) = TeamResult(g.home_score, g.away_score)
          /\ Last(dicts.last5[g.home_team_id]) = TeamResult(g.home_score, g.away_score)
          /\ Last(dicts.last3[g.away_team_id]) = TeamResult(g.away_score, g.home_score)
          /\ Last(dicts.last5[g.away_team_id]) = TeamResult(g.away_score, g.home_score)
    /\ pc = "loop" =>
          \A T \in Teams : \A S \in Seasons :
              /\ dicts.season_tot_pf[<<T, S>>] = TotalFor(ProcessedOf(T, S), T)
              /\ dicts.season_tot_pa[<<T, S>>] = TotalAgainst(ProcessedOf(T, S), T)
              /\ dicts.season_cnt[<<T, S>>] = Cardinality(ProcessedOf(T, S))
    /\ \A r \in Emitted :
          LET G == GameOf(r)
              P == PriorOf(1, G)
              first == Earliest(P)
              second == Latest(P)
              HomeWin == first.home_team_id = 1 /\ first.home_score = 20
                         /\ first.away_score = 10 /\ first.season_id = G.season_id
              AwayLoss == second.away_team_id = 1 /\ second.home_score = 17
                          /\ second.away_score = 14 /\ second.season_id = G.season_id
          IN r.team_id = 1 =>
                /\ (Cardinality(P) = 1 /\ HomeWin) =>
                      /\ r.games_played = 1
                      /\ r.off_pts_l3 = <<20, 1>> /\ r.def_pa_l3 = <<10, 1>>
                      /\ r.off_pts_l5 = <<20, 1>> /\ r.def_pa_l5 = <<10, 1>>
                /\ (Cardinality(P) = 2 /\ HomeWin /\ AwayLoss) =>
                      /\ r.games_played = 2
                      /\ r.off_pts_l3 = <<17, 1>> /\ r.def_pa_l3 = <<27, 2>>

\* Team 1's row before its third game, after 20-10 at home and 14-17 away.
C9_Witness ==
    \E r \in Emitted :
        LET P == PriorOf(1, GameOf(r)) IN
        /\ r.team_id = 1
        /\ Cardinality(P) = 2
        /\ Earliest(P).home_team_id = 1 /\ Earliest(P).home_score = 20
        /\ Latest(P).away_team_id = 1 /\ Latest(P).away_score = 14
        /\ r.games_played = 2

\* C10 (shrinkage monotonicity). For a fixed k > 0 and a fixed non-zero raw
\* value, shrink and shrink_sql agree; the weight w = gp / (gp + k) satisfies
\* 0 <= w < 1; the shrunk value is 0 at gp = 0, is smaller in magnitude than
\* the raw value, and is larger in magnitude than it was at gp - 1.
C10_ShrinkMonotone ==
    /\ ~FracLess(calc.w, ZeroF)
    /\ FracLess(calc.w, <<1, 1>>)
    /\ calc.sql = calc.out
    /\ calc.gp = 0 => calc.out = ZeroF
    /\ FracLess(FracAbs(calc.out), FracAbs(calc.value))
    /\ calc.gp > 0 => FracLess(FracAbs(calc.before), FracAbs(calc.out))
    /\ calc.gp > 0 => FracLess(ShrinkWeight(calc.gp - 1, calc.k), calc.w)

\* A negative raw value shrunk with k = 3 for a team with several games.
C10_Witness ==
    /\ calc.gp >= 3
    /\ calc.k = 3
    /\ calc.value[1] < 0
    /\ calc.out # ZeroF

\* C11 (one training row per game with snapshots). Once the training query
\* has run: a game with both scores, a snapshot of its home team and a
\* snapshot of its away team has exactly one row; every other game (a score
\* missing, or a snapshot missing) has none; the rows are in increasing
\* (start_time, id) order.
TrainingRowsOf(g) == {i \in DOMAIN training : training[i].game_id = g.id}
HasSnapshot(T, g) == \E r \in tgs : r.team_id = T /\ r.game_id = g.id

C11_OneRowPerSnapshotGame ==
    fetched =>
        /\ \A g \in GameSet :
              Cardinality(TrainingRowsOf(g)) =
                  IF /\ Completed(g)
                     /\ HasSnapshot(g.home_team_id, g)
                     /\ HasSnapshot(g.away_team_id, g)
                  THEN 1 ELSE 0
        /\ \A i \in DOMAIN training : \E g \in GameSet : g.id = training[i].game_id
        /\ \A i, j \in DOMAIN training :
              i < j =>
                  \/ training[i].start_time < training[j].start_time
                  \/ /\ training[i].start_time = training[j].start_time
                     /\ training[i].game_id < training[j].game_id

\* The query has run over a game with snapshots and a game that has both
\* scores but, lying outside the backfilled season, no snapshot.
C11_Witness ==
    /\ fetched
    /\ training # <<>>
    /\ \E g \in GameSet : Completed(g) /\ ~HasSnapshot(g.home_team_id, g)

\* C12 as claimed (minimum-history filter). When a baseline run has found
\* both splits non-empty and has handed them on, every row of the train and
\* of the test split has home_games_played >= 3 and away_games_played >= 3,
\* the default min_games.
MinGames == 3

C17_IncompleteInert ==
    [][(/\ pc = "loop"
        /\ idx <= Len(stream)
        /\ ~Completed(stream[idx])
        /\ pc' = "loop"
        /\ idx' = idx + 1)
       => (tgs' = tgs /\ buffer' = buffer /\ dicts' = dicts /\ inserted' = inserted)]_vars

\* The loop has just passed a game with one score missing, with rows of an
\* earlier game waiting in the buffer.
C17_Witness ==
    /\ pc = "loop"
    /\ idx > 1
    /\ stream[idx - 1].home_score # NULL
    /\ stream[idx - 1].away_score = NULL
    /\ buffer # <<>>

\* C18 (season scoping). In every emitted row of team T and game G,
\* games_played is the number of games with both scores that T played in G's
\* season earlier in the processed stream, and off_pts_season and
\* def_pa_season are T's points scored and allowed over those games alone;
\* T's games of another season add nothing.
PositionOf(G) == CHOOSE i \in DOMAIN stream : stream[i].id = G.id
EarlierInStream(T, G) ==
    {stream[i] : i \in {j \in 1..(PositionOf(G) - 1) :
                           Completed(stream[j]) /\ Involves(T, stream[j])}}

C18_SeasonScoping ==
    \A r \in Emitted :
        LET G == GameOf(r)
            T == r.team_id
            S == {g \in EarlierInStream(T, G) : g.season_id = G.season_id}
        IN /\ r.season_id = G.season_id
           /\ r.games_played = Cardinality(S)
           /\ r.off_pts_season = FloatOf(TotalFor(S, T))
           /\ r.def_pa_season = FloatOf(TotalAgainst(S, T))

\* A row of a team in its second game of a season, the team having played
\* in an earlier season too.
C18_Witness ==
    \E r \in Emitted :
        LET G == GameOf(r)
            E == EarlierInStream(r.team_id, G)
        IN /\ \E g \in E : g.season_id # G.season_id
           /\ \E g \in E : g.season_id = G.season_id

\* C19 as claimed (bounded batching). At no point of a run does the buffer
\* hold more than 2 * commit_every_games rows.
C19_AsClaimed ==
    /\ Len(buffer) <= 2 * args.commit_every_games
    /\ peak <= 2 * args.commit_every_games

\* C20 (a crash leaves a prefix). When a run has aborted after its delete,
\* the committed rows of the scope are the snapshots of the games with both
\* scores among the first k in-scope games in (start_time, id) order, for
\* some k: both rows of each, none of any later game; they carry their
\* season averages if the abort came after the closing pass that sets them.
PrefixOf(k) ==
    {g \in ScopeGames : Cardinality({h \in ScopeGames : Precedes(h, g)}) < k}

C20_CrashLeavesPrefix ==
    pc = "aborted" =>
        \E k \in 0..Cardinality(ScopeGames) :
            \/ ScopeRows = WalkSet(PrefixOf(k), EmptyDicts)
            \/ ScopeRows = AvgPointsPass(WalkSet(PrefixOf(k), EmptyDicts))

\* A run aborted with the rows of some but not all of its completed games
\* committed.
C20_Witness ==
    /\ pc = "aborted"
    /\ ScopeRows # {}
    /\ \E g \in CompletedInScope : RowsOf(g) = {}

\* C13 (non-finite guard). A baseline run that found both splits non-empty
\* ends in the non-finite error exactly when a feature of a row of train or
\* test is null, NaN or infinite. The error is raised for train before test;
\* it carries the index of the first row of that split with such a feature,
\* the first such column of that row, and the row's five features as they
\* were fetched, each under its label, the offending one among them. Only
\* when every feature is a finite number are the matrices handed to the
\* model, and then they hold every row with its own values.
FeatureNames ==
    <<"matchup_edge_l3_l5", "off_yards_edge_l3_l5", "turnover_edge_l3_l5",
      "season_strength", "league_avg_pts_season_to_date">>
ShortLabel ==
    [matchup_edge_l3_l5 |-> "matchup", off_yards_edge_l3_l5 |-> "off_yards",
     turnover_edge_l3_l5 |-> "to", season_strength |-> "season_strength",
     league_avg_pts_season_to_date |-> "league_avg"]
NotANumber(v) == v = NULLF \/ v[2] = 0
BadFeatures(r) == {j \in 1..5 : NotANumber(r[FeatureNames[j]])}
BadRows(data) == {i \in DOMAIN data : BadFeatures(data[i]) # {}}
Least_(S) == CHOOSE x \in S : \A y \in S : x <= y

C14_SeasonSplit ==
    bl.status # "none" =>
        /\ \A i \in DOMAIN training :
              LET r == training[i] IN
              IF r.season_year < bl.cutoff
              THEN r \in SeqToSet(bl.train) /\ r \notin SeqToSet(bl.test)
              ELSE r \in SeqToSet(bl.test) /\ r \notin SeqToSet(bl.train)
        /\ Len(bl.train) + Len(bl.test) = Len(training)
        /\ bl.status = "no_train" <=> bl.train = <<>>
        /\ bl.status = "no_test" <=> (bl.train # <<>> /\ bl.test = <<>>)
        /\ bl.status \in {"no_train", "no_test"} =>
              bl.fit = NoFit /\ bl.error.kind = bl.status

\* A run that split rows of the cutoff season and of the season before and
\* went on to fit.
C14_Witness ==
    /\ bl.status = "fitted"
    /\ \E i \in DOMAIN bl.train : bl.train[i].season_year = bl.cutoff - 1
    /\ \E i \in DOMAIN bl.test : bl.test[i].season_year = bl.cutoff

\* C15 (odds snapshot upsert is idempotent). Over the calls made on one
\* session: a call returns True exactly when no earlier call had the same
\* (game_id, book_id, captured_at, market_type, side_type, line), two null
\* lines counting as the same and a null line differing from every number;
\* the session then holds one snapshot per call that returned True, with
\* that call's values, so a call that returned False inserted nothing and
\* no two snapshots share a key.
KeyOf(c) ==
    <<c.game_id, c.book_id, c.captured_at, c.market_type, c.side_type, c.line>>
Snapshots == odds.rows \o odds.pending
FirstCalls ==
    SelectSeq([i \in DOMAIN odds.log |-> [at |-> i, call |-> odds.log[i].call]],
              LAMBDA x : \A j \in 1..(x.at - 1) :
                             KeyOf(odds.log[j].call) # KeyOf(x.call))

C15_UpsertIdempotent ==
    /\ \A i \in DOMAIN odds.log :
          odds.log[i].ret =
              (\A j \in 1..(i - 1) : KeyOf(odds.log[j].call) # KeyOf(odds.log[i].call))
    /\ Len(Snapshots) = Len(FirstCalls)
    /\ \A n \in DOMAIN Snapshots : Snapshots[n] = FirstCalls[n].call
    /\ \A m, n \in DOMAIN Snapshots :
          KeyOf(Snapshots[m]) = KeyOf(Snapshots[n]) => m = n

\* A moneyline (null line) offered again at another price after the first
\* was committed: the later call returned False.
C15_Witness ==
    \E i, j \in DOMAIN odds.log :
        /\ i < j
        /\ odds.log[i].call.line = NULLF
        /\ KeyOf(odds.log[i].call) = KeyOf(odds.log[j].call)
        /\ odds.log[i].call.price # odds.log[j].call.price
        /\ ~odds.log[j].ret
        /\ odds.pending = <<>>

\* The spreads markets of a mapped event, with their bookmaker, and the rows
\* emitted for one of them.
SpreadMarkets ==
    {bmm \in UNION {{<<mapping.event.bookmakers[i], mapping.event.bookmakers[i].markets[j]>> :
                        j \in DOMAIN mapping.event.bookmakers[i].markets} :
                    i \in DOMAIN mapping.event.bookmakers} :
        bmm[2].key = "spreads"}
IsUTC(dt) == dt.aware /\ dt.off = 0
Matching(o) ==
    /\ o.name.type = "str"
    /\ Norm(o.name.v) \in {Norm(mapping.event.home_team.v),
                           Norm(mapping.event.away_team.v)}
Tag(o) ==
    IF Norm(o.name.v) = Norm(mapping.event.home_team.v) THEN "HOME" ELSE "AWAY"
RowsOfBook(bm) ==
    SelectSeq(mapping.rows,
              LAMBDA r : r.market_type = "SPREAD" /\ r.book_key = bm.key.v)
\* The instant of a last_update string, in UTC minutes, when it is a date.
Parses(lu) == lu.type = "str" /\ lu.parses
UtcMinutes(lu) == lu.wall - 60 * (IF lu.suffix = "offset" THEN lu.off ELSE 0)
TaggedRows(bm, m, outcomes) ==
    /\ Len(RowsOfBook(bm)) = Len(outcomes)
    /\ \A n \in DOMAIN outcomes :
          LET r == RowsOfBook(bm)[n]
              o == outcomes[n]
          IN /\ r.side_type = Tag(o)
             /\ r.line.v = o.point.v
             /\ r.price = o.price.v
             /\ r.market_type = "SPREAD"
             /\ r.is_closing = FALSE
             /\ r.provider = mapping.provider
             /\ r.book_name = bm.title.v
             /\ IF Parses(m.last_update)
                THEN r.captured_at.wall = UtcMinutes(m.last_update)
                ELSE IF Parses(bm.last_update)
                THEN r.captured_at.wall = UtcMinutes(bm.last_update)
                ELSE r.captured_at.wall = mapping.fetched_at.wall

\* C16 as stated: every outcome of a spreads market whose normalised name is
\* the normalised home or away name gives exactly one row, and captured_at
\* is always UTC.
C16_AsClaimed ==
    (mapping # NoMapping /\ mapping.done
        /\ mapping.event.home_team.type = "str") =>
        \A bmm \in SpreadMarkets :
            bmm[1].key.type = "str" =>
                /\ TaggedRows(bmm[1], bmm[2], SelectSeq(bmm[2].outcomes, Matching))
                /\ \A n \in DOMAIN RowsOfBook(bmm[1]) :
                      IsUTC(RowsOfBook(bmm[1])[n].captured_at)

\* C16 (spreads mapping), amended. For a spreads market of a bookmaker whose
\* key and title are strings, in an event whose team names are strings, the
\* mapper emits exactly one row, in order, per outcome that has a string
\* name, an integer price and a numeric point and whose normalised name is
\* the normalised home or away name: tagged HOME when it is the home name
\* and AWAY otherwise, with line = float(point), the price, SPREAD,
\* is_closing False and the given provider. captured_at is the market's
\* last_update when it parses, otherwise the bookmaker's, each converted to
\* UTC with microseconds dropped; otherwise fetched_at with microseconds
\* dropped and its own tzinfo, so it is UTC when a last_update parsed or
\* fetched_at is UTC. Nothing is emitted for other bookmakers or events.
WellFormed(o) ==
    /\ Matching(o)
    /\ o.price.type = "int"
    /\ o.point.type \in {"int", "float"}
C16_SpreadRows ==
    (mapping # NoMapping /\ mapping.done) =>
        \A bmm \in SpreadMarkets :
            IF /\ mapping.event.home_team.type = "str"
               /\ mapping.event.away_team.type = "str"
               /\ bmm[1].key.type = "str" /\ bmm[1].title.type = "str"
            THEN /\ TaggedRows(bmm[1], bmm[2], SelectSeq(bmm[2].outcomes, WellFormed))
                 /\ \A n \in DOMAIN RowsOfBook(bmm[1]) :
                       LET at == RowsOfBook(bmm[1])[n].captured_at
                       IN /\ RowsOfBook(bmm[1])[n].line.type = "float"
                          /\ at.us = 0
                          /\ IF Parses(bmm[2].last_update) \/ Parses(bmm[1].last_update)
                             THEN IsUTC(at)
                             ELSE /\ at.aware = mapping.fetched_at.aware
                                  /\ at.off = mapping.fetched_at.off
            ELSE RowsOfBook(bmm[1]) = <<>>

\* An event mapped to a HOME and an AWAY spread row stamped with the
\* bookmaker's last_update, the market's own being no date.
C16_Witness ==
    /\ mapping # NoMapping
    /\ mapping.done
    /\ \E bmm \in SpreadMarkets :
          /\ ~Parses(bmm[2].last_update)
          /\ Parses(bmm[1].last_update)
          /\ bmm[1].last_update.suffix = "offset"
          /\ Len(RowsOfBook(bmm[1])) = 2
          /\ RowsOfBook(bmm[1])[1].side_type = "HOME"
          /\ RowsOfBook(bmm[1])[2].side_type = "AWAY"
          /\ RowsOfBook(bmm[1])[1].captured_at = DateTime(630, 0, TRUE, 0)

\* C23 (season means pass). The closing pass
\* backfill_team_game_state_avg_points leaves every row with
\* games_played = 0 as it was, and gives every row with games_played > 0
\* avg_points_for = off_pts_season / games_played, avg_points_against =
\* def_pa_season / games_played and avg_point_diff = their difference,
\* changing no other column; no division by zero arises.
IsRatio(q, n, d) == q # NULLF /\ q[2] > 0 /\ q[1] * d = n * q[2]
C23_SeasonMeansPass ==
    [][(pc = "avg_points" /\ pc' = "rollups") =>
          /\ Cardinality(tgs') = Cardinality(tgs)
          /\ \A r \in tgs :
                IF r.games_played = 0 THEN r \in tgs'
                ELSE \E s \in tgs' :
                        /\ s = [r EXCEPT !.avg_points_for = s.avg_points_for,
                                         !.avg_points_against = s.avg_points_against,
                                         !.avg_point_diff = s.avg_point_diff]
                        /\ IsRatio(s.avg_points_for, r.off_pts_season[1], r.games_played)
                        /\ IsRatio(s.avg_points_against, r.def_pa_season[1], r.games_played)
                        /\ IsRatio(s.avg_point_diff,
                                   r.off_pts_season[1] - r.def_pa_season[1],
                                   r.games_played)]_vars

\* The pass has just run over a first-game row and over a row of a team
\* with two earlier games whose means are not whole numbers.
C23_Witness ==
    /\ pc = "rollups"
    /\ \E r \in tgs : r.games_played = 0 /\ r.avg_points_for = NULLF
    /\ \E r \in tgs :
          /\ r.games_played = 2
          /\ r.avg_points_against[2] = 2
          /\ r.avg_point_diff # ZeroF

\* C29 (trailing windows cross the season boundary). Within one run, the
\* emitted row of a team's first game of a season, when the stream holds
\* completed games of that team in an earlier season, has games_played = 0
\* and season sums 0.0, while off_pts_l3/l5 and def_pa_l3/l5 are the means
\* over the team's 3 and 5 most recent completed games before it in the
\* stream, all of them of the earlier season.
FirstOfSeason(r) ==
    LET P == PriorOf(r.team_id, GameOf(r))
    IN /\ P # {}
       /\ \A g \in P : g.season_id # GameOf(r).season_id
C29_WindowsCrossSeasons ==
    \A r \in Emitted :
        FirstOfSeason(r) =>
            LET T == r.team_id
                P == PriorOf(T, GameOf(r))
            IN /\ r.games_played = 0
               /\ r.off_pts_season = ZeroF
               /\ r.def_pa_season = ZeroF
               /\ r.off_pts_l3 = MeanFor(MostRecent(P, L3), T)
               /\ r.def_pa_l3 = MeanAgainst(MostRecent(P, L3), T)
               /\ r.off_pts_l5 = MeanFor(MostRecent(P, L5), T)
               /\ r.def_pa_l5 = MeanAgainst(MostRecent(P, L5), T)

\* A season opener of a team that played four games the season before:
\* games_played is 0, the means are not, and the two windows differ.
C29_Witness ==
    \E r \in Emitted :
        /\ FirstOfSeason(r)
        /\ Cardinality(PriorOf(r.team_id, GameOf(r))) = SeasonLength
        /\ r.games_played = 0
        /\ r.off_pts_l3 # ZeroF
        /\ r.off_pts_l3 # r.off_pts_l5

\* Box scores as the claims speak of them, on the games table itself.
HasBox(g, T) == \E b \in stats : b.game_id = g.id /\ b.team_id = T
Opponent(g, T) == IF g.home_team_id = T THEN g.away_team_id ELSE g.home_team_id
HasBothBoxes(g, T) == HasBox(g, T) /\ HasBox(g, Opponent(g, T))
\* What team T's box score of game g reports in column c, 0 when it reports
\* nothing.
Reported(g, T, c) ==
    IF HasBox(g, T)
    THEN LET b == CHOOSE x \in stats : x.game_id = g.id /\ x.team_id = T
         IN IF b[c] = NULL THEN 0 ELSE b[c]
    ELSE 0
RECURSIVE Total(_, _, _, _)
Total(S, T, c, own) ==
    IF S = {} THEN 0
    ELSE LET g == CHOOSE x \in S : TRUE
         IN Reported(g, IF own THEN T ELSE Opponent(g, T), c)
            + Total(S \ {g}, T, c, own)
\* The games of team T in G's season that started before G.
EarlierOfSeason(T, G) ==
    {g \in GameSet : /\ Involves(T, g)
                     /\ g.season_id = G.season_id
                     /\ g.start_time < G.start_time}
\* The twelve rollup columns of row r as the sums over the games E.
RollupsAre(r, E) ==
    LET T == r.team_id
        W(n) == MostRecent(E, n)
    IN /\ r.off_yards_l3 = FloatOf(Total(W(3), T, "yards_total", TRUE))
       /\ r.off_yards_l5 = FloatOf(Total(W(5), T, "yards_total", TRUE))
       /\ r.off_yards_season = FloatOf(Total(E, T, "yards_total", TRUE))
       /\ r.off_turnovers_l3 = FloatOf(Total(W(3), T, "turnovers", TRUE))
       /\ r.off_turnovers_l5 = FloatOf(Total(W(5), T, "turnovers", TRUE))
       /\ r.off_turnovers_season = FloatOf(Total(E, T, "turnovers", TRUE))
       /\ r.def_yards_allowed_l3 = FloatOf(Total(W(3), T, "yards_total", FALSE))
       /\ r.def_yards_allowed_l5 = FloatOf(Total(W(5), T, "yards_total", FALSE))
       /\ r.def_yards_allowed_season = FloatOf(Total(E, T, "yards_total", FALSE))
       /\ r.def_takeaways_l3 = FloatOf(Total(W(3), T, "turnovers", FALSE))
       /\ r.def_takeaways_l5 = FloatOf(Total(W(5), T, "turnovers", FALSE))
       /\ r.def_takeaways_season = FloatOf(Total(E, T, "turnovers", FALSE))

\* C24 (extended rollups exclude the current game). After a run, a row whose
\* game has box scores for the team and its opponent carries the sums over
\* the latest 3, the latest 5 and all of the team's earlier games of the
\* season with such box scores, ordered by start_time: the current and later
\* games take no part, the value is 0.0 when there is no earlier game, and
\* def_* sum what the opponent reported. A row whose game lacks a box score
\* keeps the columns NULL.
C24_RollupsExcludeCurrent ==
    pc = "done" =>
        \A r \in tgs :
            IF HasBothBoxes(GameOf(r), r.team_id)
            THEN RollupsAre(r, {g \in EarlierOfSeason(r.team_id, GameOf(r)) :
                                   HasBothBoxes(g, r.team_id)})
            ELSE \A c \in RollupColumns : r[c] = NULLF

\* A row with more than three earlier box scores in its season, so that the
\* sums of yards differ, and an earlier game without a box score.
C24_Witness ==
    /\ pc = "done"
    /\ \E r \in tgs :
          /\ HasBothBoxes(GameOf(r), r.team_id)
          /\ r.off_yards_l3 # r.off_yards_l5
          /\ r.def_takeaways_l3 # ZeroF
          /\ \E g \in EarlierOfSeason(r.team_id, GameOf(r)) :
                ~HasBothBoxes(g, r.team_id)

\* The rows of season S in a table.
SeasonRows(rows, S) == {r \in rows : r.season_id = S}

\* C21 as claimed (season-filter equivalence): when a season is backfilled
\* again after a run over the whole history, every snapshot of that season
\* has the field values the run over the whole history gave it.
C21_AsClaimed ==
    (pc = "done" /\ rerun /\ prev.result > 0 /\ args.season_id # NULL) =>
        SeasonRows(tgs, args.season_id) = SeasonRows(prev.rows, args.season_id)

\* C22 as claimed (scope frame): when a run restricted to a season has
\* ended, every row that was in the table before it and belongs to a game of
\* another season is in the table with every field as it was.
C22_AsClaimed ==
    (pc = "done" /\ rerun /\ args.season_id # NULL) =>
        \A r \in prev.rows : r.season_id # args.season_id => r \in tgs

\* The games the training query has a row for, in its order.
Trainable == {g \in GameSet : Completed(g) /\ Cardinality(RowsOf(g)) = 2}
Returned(limit) ==
    {g \in Trainable : Cardinality({x \in Trainable : Precedes(x, g)}) < limit}
\* No completed game of g's season started strictly before g.
FirstKickoff(g) ==
    ~\E x \in GameSet :
        Completed(x) /\ x.season_id = g.season_id /\ x.start_time < g.start_time

\* C30 (a null league average fails the fetch). fetch_training_rows raises
\* a TypeError and returns nothing when one of the games it was to return
\* has no completed game of its season with a strictly earlier start_time;
\* it returns one row per game, each with a league average, otherwise.
C30_FirstKickoffFailsFetch ==
    (pc = "done" /\ fetched) =>
        IF \E g \in Returned(raised.limit) : FirstKickoff(g)
        THEN raised.error = "TypeError" /\ training = <<>>
        ELSE /\ raised.error = "none"
             /\ Len(training) = Cardinality(Returned(raised.limit))
             /\ \A i \in DOMAIN training :
                   training[i].league_avg_pts_season_to_date # NULLF

\* A fetch of one row failed on the first kickoff of the second season,
\* with rows of a first season on file.
C30_Witness ==
    /\ pc = "done"
    /\ fetched
    /\ raised = [error |-> "TypeError", limit |-> 1]
    /\ \E g \in Returned(1) : g.season_id = 2 /\ FirstKickoff(g)
    /\ \E g \in GameSet : g.season_id = 1

\* The snapshots a training row was assembled from.
HomeOf(t) == CHOOSE r \in tgs : r.game_id = t.game_id /\ r.team_id = t.home_team_id
AwayOf(t) == CHOOSE r \in tgs : r.game_id = t.game_id /\ r.team_id = t.away_team_id
LesserGames(t) ==
    IF HomeOf(t).games_played <= AwayOf(t).games_played
    THEN HomeOf(t).games_played ELSE AwayOf(t).games_played
Zeroed(x) == IF x = NULLF THEN ZeroF ELSE x
Times(w, x) == Frac(w[1] * x[1], w[2] * x[2])
Minus(x, y) == Frac(x[1] * y[2] - y[1] * x[2], x[2] * y[2])
Within4(x) == -4 * x[2] <= x[1] /\ x[1] <= 4 * x[2]

TurnoverShrunk(t) ==
    LET h == HomeOf(t)
        a == AwayOf(t)
        side(own, opp) == Minus(Zeroed(opp.def_takeaways_l5), Zeroed(own.off_turnovers_l3))
    IN Times(<<LesserGames(t), LesserGames(t) + 3>>, Minus(side(h, a), side(a, h)))

StrengthOf(r) ==
    IF r.games_played = 0 THEN ZeroF
    ELSE Times(<<r.games_played, r.games_played + 6>>,
               Frac(r.off_pts_season[1] - r.def_pa_season[1], r.games_played))

\* C27 (season strength). season_strength is the home side's shrunk season
\* point difference per game less the away side's, each weighted by its own
\* games_played, a side without a game contributing 0; it is a finite number.
C27_SeasonStrength ==
    \A i \in DOMAIN training :
        LET t == training[i]
        IN /\ t.season_strength = Minus(StrengthOf(HomeOf(t)), StrengthOf(AwayOf(t)))
           /\ t.season_strength # NULLF
           /\ t.season_strength[2] > 0

\* A row with a side without a game whose opponent, four games into the
\* season, has a non-zero strength.
C27_Witness ==
    \E i \in DOMAIN training :
        /\ HomeOf(training[i]).games_played = 0
        /\ AwayOf(training[i]).games_played = 4
        /\ training[i].season_strength # ZeroF

\* The engineered differentials of a training row.
Edges == {"matchup_edge_l3_l5", "season_strength", "off_yards_edge_l3_l5",
          "turnover_edge_l3_l5"}
Negated(x) == IF x = NULLF THEN NULLF ELSE <<-x[1], x[2]>>
\* The columns two snapshots may be told apart by.
Columns(r) ==
    [c \in (DOMAIN r) \ {"team_id", "game_id", "start_time", "season_id"} |-> r[c]]
\* Rows i and j are of games that exchange the home and away snapshots.
Exchanged(i, j) ==
    /\ Columns(HomeOf(training[i])) = Columns(AwayOf(training[j]))
    /\ Columns(AwayOf(training[i])) = Columns(HomeOf(training[j]))

\* C28 as claimed (home/away antisymmetry): exchanging the home and away
\* snapshots negates the four differentials, and each is 0 when the two
\* snapshots are identical.
C28_AsClaimed ==
    \A i, j \in DOMAIN training :
        /\ Exchanged(i, j) =>
              \A e \in Edges : training[j][e] = Negated(training[i][e])
        /\ Columns(HomeOf(training[i])) = Columns(AwayOf(training[i])) =>
              \A e \in Edges : training[i][e] = ZeroF

\* C28 (amended). Exchanging the home and away snapshots negates the four
\* differentials, a NULL off_yards_edge_l3_l5 staying NULL; when the two
\* snapshots are identical matchup_edge_l3_l5, season_strength and
\* turnover_edge_l3_l5 are 0, and off_yards_edge_l3_l5 is 0 unless a yardage
\* rollup it reads is NULL, when it is NULL.
C28_Antisymmetry ==
    \A i, j \in DOMAIN training :
        /\ Exchanged(i, j) =>
              \A e \in Edges : training[j][e] = Negated(training[i][e])
        /\ Columns(HomeOf(training[i])) = Columns(AwayOf(training[i])) =>
              /\ \A e \in Edges \ {"off_yards_edge_l3_l5"} : training[i][e] = ZeroF
              /\ training[i].off_yards_edge_l3_l5 =
                     IF HomeOf(training[i]).off_yards_l3 = NULLF
                        \/ HomeOf(training[i]).def_yards_allowed_l5 = NULLF
                     THEN NULLF ELSE ZeroF

\* Two rows of exchanged snapshots with all four differentials non-zero.
C28_Witness ==
    \E i, j \in DOMAIN training :
        /\ i # j
        /\ Exchanged(i, j)
        /\ \A e \in Edges : training[i][e] \notin {NULLF, ZeroF}

====
